---- MODULE Spec2Model ----
(***************************************************************************)
(* Model of the cache mover (src/mover): main() runs, for every mapping,   *)
(* the demote phase (move_to_destination), the promote phase               *)
(* (move_to_source) and, in a finally block, mapping.aclose().  The file   *)
(* system of one mapping is three relative paths in two directories, each  *)
(* present on the source tier and possibly present on the destination      *)
(* tier; inode numbers identify on-disk files, so hardlinks are paths      *)
(* mapped to the same inode.  Failures of the operating system and of the  *)
(* external services are inputs of the steps that call them.               *)
(***************************************************************************)
EXTENDS Integers, Sequences, FiniteSets, TLC

\* ------------------------------------------------------------------ bounds

\* Largest size of a file, in abstract byte units.
MaxSize == 2
\* Largest demotion budget (bytes over the threshold) a mapping starts with.
MaxBudget == 2
\* Number of failures the environment injects while one mapping is processed.
MaxFaults == 1
\* Number of mappings of the configuration.
NumMappings == 2

\* ------------------------------------------------------- the file universe

Paths == {"a/x", "a/y", "b/x"}
Dirs == {"a", "b"}
DirOf(p) == IF p = "b/x" THEN "b" ELSE "a"

\* Lexicographic rank of a path string (Python's str comparison).
PathRank(p) == CASE p = "a/x" -> 1 [] p = "a/y" -> 2 [] OTHER -> 3

\* Inode numbers.  0 stands for "no such file".
SrcInodes == {1, 2}
OldDstInodes == {11, 12}
\* The inode a copy creates at a destination path that did not exist.
FreshInode(p) == 20 + PathRank(p)
Inodes == SrcInodes \cup OldDstInodes \cup {FreshInode(p) : p \in Paths}

\* Hardlink layouts of the source tier: a pair of links in two directories
\* and a single file, or a pair of links in one directory and a single file.
SrcLayouts ==
    { [p \in Paths |-> IF p = "a/y" THEN 2 ELSE 1],
      [p \in Paths |-> IF p = "b/x" THEN 2 ELSE 1] }

\* os.walk(source) with dirs.sort(): directory "a" before "b"; the files of
\* one directory come in the order the file system lists them.
WalkOrders == { <<"a/x", "a/y", "b/x">>, <<"a/y", "a/x", "b/x">> }

\* Initial destination tiers: every path is absent or a link of one of two
\* pre-existing inodes, numbered in the order of the paths that use them.
DstLayouts ==
    { f \in [Paths -> {0} \cup OldDstInodes] :
        \A p \in Paths : f[p] = 12 => \E q \in Paths : PathRank(q) < PathRank(p) /\ f[q] = 11 }

Min(a, b) == IF a < b THEN a ELSE b
Max(a, b) == IF a > b THEN a ELSE b

RECURSIVE SumOver(_, _)
SumOver(S, f) ==
    IF S = {} THEN 0
    ELSE LET x == CHOOSE y \in S : TRUE IN f[x] + SumOver(S \ {x}, f)

\* ------------------------------------------------------ external services

\* Seeding clients and the completed torrents each one lists
\* (client.torrents.info), with the content path of every torrent: a file or
\* a directory, relative to the tier root after the rewriter.
Clients == {"qb1", "qb2"}
Torrents == {"t1", "t2", "t3"}
TorrentList(c) == IF c = "qb1" THEN <<"t1", "t2">> ELSE <<"t3">>
ContentPath(t) == CASE t = "t1" -> "a" [] t = "t2" -> "a/x" [] OTHER -> "b/x"
\* eta, completion_on and num_seeds as the client reports them.
TorrentInfo(t) ==
    CASE t = "t1" -> [eta |-> 0, completion_on |-> 1, num_seeds |-> 4]
      [] t = "t2" -> [eta |-> 7, completion_on |-> 2, num_seeds |-> 1]
      [] OTHER    -> [eta |-> 0, completion_on |-> 0, num_seeds |-> 2]

Players == {"plex", "jellyfin"}

\* Disk of the source tier and the thresholds of the mapping (percent).
Disk == [total |-> 20, threshold |-> 50, cache_threshold |-> 50]
\* The run's clock and the age window of the mapping.
Clock == [now |-> 3, min_age |-> 1, max_age |-> 2]

\* Bytes in use on the source tier when a mapping starts: below the cache
\* threshold, at the moving threshold, or 1..MaxBudget over it.
UsedChoices == {7} \cup {(Disk.total * Disk.threshold) \div 100 + b : b \in 0..MaxBudget}

\* Creation times of the two source inodes (the second may be too young, the
\* first too old).
CTimeChoices == { [i \in SrcInodes |-> 1], [i \in SrcInodes |-> IF i = 2 THEN 3 ELSE 1],
                  [i \in SrcInodes |-> IF i = 1 THEN 0 ELSE 1] }
\* Names matched by the mapping's ignore globs.
IgnoreChoices == { {}, {"a/x"}, {"b/x", "b"} }
\* The paths each media player lists as continue-watching.
CwChoices == { [m \in Players |-> {}],
               [m \in Players |-> IF m = "plex" THEN {"a/y"} ELSE {}],
               [m \in Players |-> {"b/x"}] }
\* Users that have not watched the file of an inode, per media player.
UnwatchedChoices == { [m \in Players |-> [i \in SrcInodes |-> 0]],
                      [m \in Players |-> [i \in SrcInodes |-> IF i = 1 THEN 1 ELSE 0]] }

\* ------------------------------------------------------------------ state

VARIABLES
    mi,               \* index of the mapping main() is processing
    pc,               \* position of main() in that mapping
    dry_run,          \* helpers._dry_run
    faults,           \* failures injected so far in this mapping
    \* the tiers and the torrent daemon
    src, dst,         \* path -> inode on the source / destination tier (0: absent)
    isize,            \* inode -> st_size (0: no such inode)
    src_dirs, dst_dirs,   \* directories that exist on each tier
    used,             \* shutil.disk_usage(source).used
    tstate,           \* torrent -> "seeding" | "paused" in the daemon
    \* inputs of the mapping
    walk_order, ignores, ctime, cw_items, unwatched,
    \* Qbit
    seen, cache, paused_torrents,
    \* move_to_destination / move_files
    needs, files, inodes_map, remaining, total, processed, src_file, link_src_file,
    emptied,          \* emptiedspace of main(); -1 while not assigned
    \* history
    src0, dst0, isize0, dst_dirs0,   \* the tiers when the mapping started
    used0,            \* the usage of the source when the mapping started
    twin,             \* the dry run this run repeats for real, if any
    orphan_credit,    \* bytes credited for deleted destination files
    moved,            \* inodes credited by move_files, in order
    active_skipped,   \* inodes whose leader is_active reported in use
    touched,          \* paths paused, copied, linked or deleted by move_files
    failed,           \* <<path, step>>: the copy or the link that did not succeed
    sent,             \* pause / resume calls that reached the daemon
    \* the tasks of move_to_destination that compute the sort keys
    sort_key,         \* path -> the key tuple get_sort_key returns for it
    tasks,            \* path -> position of its enqueue_with_key task
    sem,              \* free slots of the semaphore of move_to_destination
    pq,               \* the entries of the priority queue, in put order
    plan,             \* the paths pq.get() returned, in order
    \* one Qbit object, its callers and its scan tasks
    qbit,             \* the client the object talks to
    qbit_sem,         \* value of self.sem
    scan_calls,       \* call -> [root, st]: the scan(root) calls and their tasks
    enumerated,       \* root -> number of enumerations that indexed something
    read_log,         \* what the latest get_sort_key or pause call observed
    \* one Rewriter object and a path handed to it
    rewriter,         \* the object: its class and the fields __init__ sets
    rw_path,          \* the path given to the first call
    rw_applied,       \* the methods called so far, each on the previous result
    rw_result,        \* what the last call returned
    \* one call of MovingMapping.is_active and its probe tasks
    probe_answer,     \* player -> what its probe finds when it is left to finish
    probes,           \* player -> state of the task of media.is_active(file)
    completed,        \* the players whose task finished, in the order as_completed yields
    awaited,          \* how many results the loop over as_completed has awaited
    active_pc,        \* position of the call
    active_result,    \* the local variable result of the call
    \* one call of MovingMapping.needs_moving on given disk figures
    usage,            \* shutil.disk_usage(self.source): total and used
    threshold_pct,    \* self.threshold, a percentage
    budget,           \* what needs_moving returned, -1 before the call
    scanned,          \* the clients whose scan(self.source) the call awaited
    \* eligible_for_source: the continue_watching tasks and the drain of their queue
    watching,         \* player -> what its __continue_watching returned: (key, bucket) pairs
    cw_done,          \* player -> entries its continue_watching(pq) has put so far
    cw_queue,         \* the entries in the priority queue of eligible_for_source
    cw_seen,          \* the local set seen of eligible_for_source
    candidates,       \* the local list result of eligible_for_source
    \* the __main__ block of processes started on one config and one lock file
    raw,              \* the mapping of the parsed config file: its keys and thresholds
    proc_pc,          \* process -> its position in the __main__ block
    lock_fd,          \* process -> the inode its lock_file is open on, 0 if none
    lock_path,        \* the inode args.lock_file names, 0 if the path does not exist
    flock_owner,      \* inode -> the process that holds its flock, 0 if none
    inode_count,      \* the lock files created so far
    seeder_called     \* the processes whose main() called a seeding client

envVars == <<src, dst, isize, src_dirs, dst_dirs, used, tstate>>
cfgVars == <<walk_order, ignores, ctime, cw_items, unwatched>>
qbitVars == <<seen, cache, paused_torrents>>
planVars == <<needs, files, inodes_map>>
execVars == <<remaining, total, processed, src_file, link_src_file>>
initVars == <<src0, dst0, isize0, dst_dirs0, used0, twin>>
histVars == <<orphan_credit, moved, active_skipped, touched, sent, failed>>
mainVars == <<mi, pc, dry_run, faults, envVars, cfgVars, qbitVars, planVars, execVars,
              emptied, initVars, histVars>>
pqVars == <<sort_key, tasks, sem, pq, plan>>
scanVars == <<qbit, qbit_sem, scan_calls, enumerated, read_log>>
rwVars == <<rewriter, rw_path, rw_applied, rw_result>>
probeVars == <<probe_answer, probes, completed, awaited, active_pc, active_result>>
budgetVars == <<usage, threshold_pct, budget, scanned>>
promoteVars == <<watching, cw_done, cw_queue, cw_seen, candidates>>
startupVars == <<raw, proc_pc, lock_fd, lock_path, flock_owner, inode_count, seeder_called>>
unitVars == <<pqVars, scanVars, rwVars, probeVars, budgetVars, promoteVars, startupVars>>
\* What the steps of one component leave alone of the others.
unitsButPlan == <<scanVars, rwVars, probeVars, budgetVars, promoteVars, startupVars>>
unitsButScan == <<pqVars, rwVars, probeVars, budgetVars, promoteVars, startupVars>>
unitsButRewriter == <<pqVars, scanVars, probeVars, budgetVars, promoteVars, startupVars>>
unitsButProbes == <<pqVars, scanVars, rwVars, budgetVars, promoteVars, startupVars>>
unitsButBudget == <<pqVars, scanVars, rwVars, probeVars, promoteVars, startupVars>>
unitsButPromote == <<pqVars, scanVars, rwVars, probeVars, budgetVars, startupVars>>
unitsButStartup == <<pqVars, scanVars, rwVars, probeVars, budgetVars, promoteVars>>
vars == <<mainVars, unitVars>>

\* --------------------------------------------------------------- helpers.py

\* helpers.get_stat of a source path: the stat taken during the walk stays in
\* _stat_cache; source files are never rewritten, so it is the initial stat.
get_stat(p) == [st_ino |-> src0[p], st_size |-> isize0[src0[p]]]

\* os.stat of a destination path; a destination path is first stat-ed by
\* is_same_file, at the moment this operator is evaluated.
dest_stat(p) == [st_ino |-> dst[p], st_size |-> isize[dst[p]]]

is_same_file(p) ==
    /\ dst[p] # 0
    /\ get_stat(p).st_size = dest_stat(p).st_size

\* MovingMapping.is_ignored: some ignore glob matches the name.
is_ignored(name) == name \in ignores

\* A mapping that takes a file of any age.
within_age_range_always(p) == src0[p] = src0[p]

\* MovingMapping.within_age_range.
within_age_range(p) ==
    LET age == Clock.now - ctime[src0[p]] IN
    Clock.min_age <= age /\ age <= Clock.max_age

\* ------------------------------------------------ helpers.py: mutations

\* The tiers as one value, so that the steps of one handler compose.
FS == [src |-> src, dst |-> dst, isize |-> isize,
       src_dirs |-> src_dirs, dst_dirs |-> dst_dirs, used |-> used]

SetFS(fs) ==
    /\ src' = fs.src /\ dst' = fs.dst /\ isize' = fs.isize
    /\ src_dirs' = fs.src_dirs /\ dst_dirs' = fs.dst_dirs /\ used' = fs.used

Referenced(fs, i) == \E p \in Paths : fs.src[p] = i \/ fs.dst[p] = i

\* os.remove of a path of the source tier: the inode and its bytes go with
\* the last link.
remove_src(fs, p) ==
    LET i == fs.src[p]
        s == [fs.src EXCEPT ![p] = 0]
        last == \A q \in Paths : s[q] # i
    IN [fs EXCEPT !.src = s,
                  !.used = IF last THEN fs.used - fs.isize[i] ELSE fs.used,
                  !.isize = IF last THEN [fs.isize EXCEPT ![i] = 0] ELSE fs.isize]

\* os.remove of a path of the destination tier.
remove_dst(fs, p) ==
    LET i == fs.dst[p]
        d == [fs.dst EXCEPT ![p] = 0]
        last == \A q \in Paths : d[q] # i
    IN [fs EXCEPT !.dst = d,
                  !.isize = IF last THEN [fs.isize EXCEPT ![i] = 0] ELSE fs.isize]

\* shutil.copy2(src_file, dest_file): an existing destination file is opened
\* for writing and keeps its inode (every link of it sees the new content);
\* otherwise a new inode is created.  `size` is what ends up written.
copy2(fs, p, size) ==
    LET i == IF fs.dst[p] # 0 THEN fs.dst[p] ELSE FreshInode(p)
    IN [fs EXCEPT !.dst = [fs.dst EXCEPT ![p] = i],
                  !.isize = [fs.isize EXCEPT ![i] = size]]

\* os.link(link_file, dest_file)
os_link(fs, from, to) == [fs EXCEPT !.dst = [fs.dst EXCEPT ![to] = fs.dst[from]]]

\* An execute that runs the callable in a dry run too.
execute_always(fs, after) == after

\* helpers.execute: the callable runs unless the run is a dry run.
execute(fs, after) == IF dry_run THEN fs ELSE after

\* helpers.maybe_create_dir for the parent of a destination path.  mk is how
\* create_dir ends: "ok", "chown_denied" (PermissionError of os.chown, after
\* the mkdir), "mkdir_denied" (PermissionError of mkdir), both logged, or
\* "mkdir_error" (another OSError, which propagates).
MkOutcomes == {"ok", "chown_denied", "mkdir_denied", "mkdir_error"}
maybe_create_dir(fs, p, mk) ==
    IF DirOf(p) \in fs.dst_dirs THEN [fs |-> fs, raised |-> FALSE]
    ELSE [fs |-> execute(fs, IF mk \in {"ok", "chown_denied"}
                             THEN [fs EXCEPT !.dst_dirs = @ \cup {DirOf(p)}]
                             ELSE fs),
          raised |-> ~dry_run /\ mk = "mkdir_error"]

\* helpers.copy_file_with_metadata.  cp is how copy() ends: "ok",
\* "chown_denied" (PermissionError of os.chown, after the copy),
\* "copy_denied" (PermissionError of shutil.copy2: nothing written), both
\* logged, or "copy_error" (another OSError: a truncated file is left and
\* the error propagates).  Without the parent directory copy2 raises
\* FileNotFoundError, which propagates too.
CpOutcomes == {"ok", "chown_denied", "copy_denied", "copy_error"}
copy_file_with_metadata(fs, p, mk, cp) ==
    LET d == maybe_create_dir(fs, p, mk) IN
    IF d.raised THEN d
    ELSE IF dry_run THEN [fs |-> d.fs, raised |-> FALSE]
    ELSE IF DirOf(p) \notin d.fs.dst_dirs THEN [fs |-> d.fs, raised |-> TRUE]
    ELSE CASE cp \in {"ok", "chown_denied"} ->
                [fs |-> copy2(d.fs, p, get_stat(p).st_size), raised |-> FALSE]
           [] cp = "copy_denied" -> [fs |-> d.fs, raised |-> FALSE]
           [] OTHER -> [fs |-> copy2(d.fs, p, 0), raised |-> TRUE]

\* helpers.link_file(dest_file, link_src_file, link_dest_file): os.link is
\* not guarded; it raises when dest_file or the parent directory is missing,
\* when link_dest_file exists, or (lk = "link_error") for another OSError.
LkOutcomes == {"ok", "link_error"}
link_file(fs, from, to, mk, lk) ==
    LET d == maybe_create_dir(fs, to, mk) IN
    IF d.raised THEN d
    ELSE IF dry_run THEN [fs |-> d.fs, raised |-> FALSE]
    ELSE IF \/ DirOf(to) \notin d.fs.dst_dirs
            \/ d.fs.dst[from] = 0
            \/ d.fs.dst[to] # 0
            \/ lk = "link_error"
         THEN [fs |-> d.fs, raised |-> TRUE]
    ELSE [fs |-> os_link(d.fs, from, to), raised |-> FALSE]

\* helpers.delete_file: a failing os.remove is logged, never raised.
delete_src(fs, p, ok) == execute(fs, IF ok /\ fs.src[p] # 0 THEN remove_src(fs, p) ELSE fs)
delete_dst(fs, p, ok) == execute(fs, IF ok /\ fs.dst[p] # 0 THEN remove_dst(fs, p) ELSE fs)

\* Failures injected by one choice of outcomes.
Failures(outcomes) == Cardinality({ k \in DOMAIN outcomes : outcomes[k] # "ok" })

\* ------------------------------------------------------------------ qbit.py

RECURSIVE FlatMap(_, _)
\* The concatenation of F[x] for x along the sequence xs.
FlatMap(xs, F) == IF xs = <<>> THEN <<>> ELSE F[Head(xs)] \o FlatMap(Tail(xs), F)

Range(xs) == { xs[k] : k \in 1..Len(xs) }

TierIno(root, p) == IF root = "source" THEN src[p] ELSE dst[p]

\* The file or the files of the directory a torrent's content path names.
Covers(t, p) == ContentPath(t) = p \/ ContentPath(t) = DirOf(p)

\* What submit() of Qbit.scan appends to self.cache[i]: one entry per torrent
\* and per file of the torrent whose inode is i, in listing order.
Indexed(c, root, i) ==
    FlatMap(TorrentList(c),
            [t \in Torrents |->
                FlatMap(walk_order,
                        [p \in Paths |->
                            IF Covers(t, p) /\ TierIno(root, p) = i /\ i # 0
                            THEN <<t>> ELSE <<>>])])

\* Qbit.scan(root) of every client; the clients of `down` are unreachable:
\* their enumeration raises inside the worker thread, nothing is indexed and
\* the root is not marked seen.
ScanCache(root, down) ==
    [c \in Clients |->
        IF root \in seen[c] \/ c \in down THEN cache[c]
        ELSE [i \in Inodes |-> cache[c][i] \o Indexed(c, root, i)]]

ScanSeen(root, down) ==
    [c \in Clients |-> IF c \in down THEN seen[c] ELSE seen[c] \cup {root}]

\* Qbit.get_sort_key
qbit_get_sort_key(c, p) ==
    { <<TorrentInfo(t).eta, Clock.now - TorrentInfo(t).completion_on,
        TorrentInfo(t).num_seeds>> : t \in Range(cache[c][get_stat(p).st_ino]) }

\* The torrents Qbit.pause(path) of client c pauses: those indexed under the
\* inode of the path that are not in paused_torrents yet, each once.
RECURSIVE Dedup(_)
Dedup(xs) ==
    IF xs = <<>> THEN <<>>
    ELSE LET r == Dedup(SubSeq(xs, 1, Len(xs) - 1))
             x == xs[Len(xs)]
         IN IF x \in Range(r) THEN r ELSE Append(r, x)

ToPause(c, p) ==
    Dedup(SelectSeq(cache[c][get_stat(p).st_ino],
                    LAMBDA t : t \notin Range(paused_torrents[c])))

\* ----------------------------------------------------------------- config.py

SetMax(S) == CHOOSE x \in S : \A y \in S : y <= x
SetMin(S) == CHOOSE x \in S : \A y \in S : x <= y

\* The inodes a media player holds in its continue-watching-on-source set:
\* computed once, while the tiers are as they were when the mapping started.
continue_watching_on_source(m) == { src0[p] : p \in { q \in cw_items[m] : src0[q] # 0 } }

\* A media player that reports no file as continue-watching.
media_get_sort_key_no_cw(m, p) ==
    [cw |-> FALSE, wc |-> unwatched[m][get_stat(p).st_ino]]

\* Plex.get_sort_key / Jellyfin.get_sort_key
media_get_sort_key(m, p) ==
    [cw |-> get_stat(p).st_ino \in continue_watching_on_source(m),
     wc |-> unwatched[m][get_stat(p).st_ino]]

\* The loop of MovingMapping.get_sort_key over the clients' results; the
\* three accumulators start at 0.
torrent_eta(p) ==
    SetMax({0} \cup UNION { { r[1] : r \in qbit_get_sort_key(c, p) } : c \in Clients })
completion_age(p) ==
    SetMin({0} \cup UNION { { r[2] : r \in qbit_get_sort_key(c, p) } : c \in Clients })
num_seeders(p) ==
    SetMin({0} \cup UNION { { r[3] : r \in qbit_get_sort_key(c, p) } : c \in Clients })

\* qbit_results holds one entry per client, empty or not.
has_torrent == IF Cardinality(Clients) # 0 THEN 1 ELSE 0

get_sort_key(p) ==
    IF is_ignored(p) THEN <<1, 0, 0, 0, 0, 0, 0, 0>>
    ELSE << IF \E m \in Players : media_get_sort_key(m, p).cw THEN 1 ELSE 0,
            SumOver(Players, [m \in Players |-> media_get_sort_key(m, p).wc]),
            has_torrent,
            torrent_eta(p),
            - completion_age(p),
            - num_seeders(p),
            Cardinality(Clients),
            - get_stat(p).st_size,
            ctime[get_stat(p).st_ino] >>

RECURSIVE TupleLess(_, _)
\* Python's < on tuples of numbers.
TupleLess(a, b) ==
    IF a = <<>> THEN b # <<>>
    ELSE IF b = <<>> THEN FALSE
    ELSE IF Head(a) = Head(b) THEN TupleLess(Tail(a), Tail(b))
    ELSE Head(a) < Head(b)

\* Order of the entries ((key, metadata), src_file) in the priority queue:
\* equal keys carry equal metadata, so the path decides.
EntryLess(p, q) ==
    \/ TupleLess(get_sort_key(p), get_sort_key(q))
    \/ get_sort_key(p) = get_sort_key(q) /\ PathRank(p) < PathRank(q)

RECURSIVE Drain(_)
\* The paths in the order pq.get() returns them.
Drain(S) ==
    IF S = {} THEN <<>>
    ELSE LET first == CHOOSE p \in S : \A q \in S \ {p} : EntryLess(p, q)
         IN <<first>> \o Drain(S \ {first})

\* ------------------------------------------------- components at rest

\* No sort-key task exists and the priority queue is empty.
PlanIdle ==
    /\ sort_key = <<>> /\ tasks = <<>> /\ sem = 0 /\ pq = <<>> /\ plan = <<>>

\* No Qbit object is exercised on its own.
ScanIdle ==
    /\ qbit = "" /\ qbit_sem = 1 /\ scan_calls = <<>> /\ enumerated = <<>>
    /\ read_log = {}

\* No Rewriter object is exercised on its own.
RewriterIdle ==
    /\ rewriter = <<>> /\ rw_path = <<>> /\ rw_applied = <<>> /\ rw_result = <<>>

\* No call of is_active is exercised on its own.
ProbesIdle ==
    /\ probe_answer = <<>> /\ probes = <<>> /\ completed = <<>> /\ awaited = 0
    /\ active_pc = "" /\ active_result = FALSE

\* No call of needs_moving is exercised on its own.
BudgetIdle ==
    /\ usage = <<>> /\ threshold_pct = 0 /\ budget = -1 /\ scanned = {}

\* No promotion candidate list is built on its own.
PromoteIdle ==
    /\ watching = [m \in Players |-> <<>>] /\ cw_done = [m \in Players |-> 0]
    /\ cw_queue = {} /\ cw_seen = {} /\ candidates = <<>>

\* No process is started on its own.
StartupIdle ==
    /\ raw = <<>> /\ proc_pc = <<>> /\ lock_fd = <<>> /\ lock_path = 0
    /\ flock_owner = <<>> /\ inode_count = 0 /\ seeder_called = {}

UnitsIdle == PlanIdle /\ ScanIdle /\ RewriterIdle /\ ProbesIdle /\ BudgetIdle /\ PromoteIdle /\ StartupIdle
\* Every component but one is at rest.
IdleButPlan == ScanIdle /\ RewriterIdle /\ ProbesIdle /\ BudgetIdle /\ PromoteIdle /\ StartupIdle
IdleButScan == PlanIdle /\ RewriterIdle /\ ProbesIdle /\ BudgetIdle /\ PromoteIdle /\ StartupIdle
IdleButRewriter == PlanIdle /\ ScanIdle /\ ProbesIdle /\ BudgetIdle /\ PromoteIdle /\ StartupIdle
IdleButProbes == PlanIdle /\ ScanIdle /\ RewriterIdle /\ BudgetIdle /\ PromoteIdle /\ StartupIdle
IdleButBudget == PlanIdle /\ ScanIdle /\ RewriterIdle /\ ProbesIdle /\ PromoteIdle /\ StartupIdle
IdleButPromote == PlanIdle /\ ScanIdle /\ RewriterIdle /\ ProbesIdle /\ BudgetIdle /\ StartupIdle
IdleButStartup == PlanIdle /\ ScanIdle /\ RewriterIdle /\ ProbesIdle /\ BudgetIdle /\ PromoteIdle

\* --------------------------------------------------------- initial states

\* The source tier holds none of "a/y", "b/x" (they were demoted earlier).
PartialLayout == [p \in Paths |-> IF p = "a/x" THEN 1 ELSE 0]
DemotedLayout == [p \in Paths |-> CASE p = "a/x" -> 0 [] p = "a/y" -> 11 [] OTHER -> 12]
NoFiles == [p \in Paths |-> 0]
DefaultSizes == [i \in SrcInodes \cup OldDstInodes |-> IF i \in {1, 11} THEN 1 ELSE MaxSize]

\* File sizes: any size for an inode of the source; the smallest or the
\* largest size for a file the destination already holds.
SizeChoices ==
    { f \in [SrcInodes \cup OldDstInodes -> 1..MaxSize] :
        \A i \in OldDstInodes : f[i] \in {1, MaxSize} }

\* Mappings that differ in the two tiers: layouts, sizes and what the
\* destination already holds.
TierConfigs ==
    [ layout : SrcLayouts, order : WalkOrders,
      sizes : SizeChoices,
      dest : DstLayouts,
      used : UsedChoices \ {7, (Disk.total * Disk.threshold) \div 100},
      ignores : {{}}, ctime : {[i \in SrcInodes |-> 1]},
      cw : {[m \in Players |-> {}]},
      unwatched : {[m \in Players |-> [i \in SrcInodes |-> 0]]} ]

\* Mappings that differ in configuration and in the external signals; the
\* destination holds nothing, or the files the source no longer holds.
SignalConfigs ==
    [ layout : SrcLayouts \cup {PartialLayout}, order : WalkOrders,
      sizes : {DefaultSizes},
      dest : {NoFiles, DemotedLayout},
      used : UsedChoices,
      ignores : IgnoreChoices, ctime : CTimeChoices,
      cw : CwChoices, unwatched : UnwatchedChoices ]

\* The listing order of directory "a" matters only when it holds two links
\* of one inode.
Configs ==
    { c \in TierConfigs \cup { d \in SignalConfigs :
                                 d.dest = DemotedLayout <=> d.layout = PartialLayout } :
        c.order = <<"a/y", "a/x", "b/x">> => c.layout["a/x"] = c.layout["a/y"] }

\* The mappings after the first one come with the default sizes.
LaterConfigs == { c \in Configs : c.sizes = DefaultSizes }

InitIsize(c) ==
    [i \in Inodes |->
        IF \E p \in Paths : c.layout[p] = i \/ c.dest[p] = i THEN c.sizes[i] ELSE 0]

\* No dry run came before this run.
NoTwin == [pass |-> 0, answers |-> [i \in SrcInodes |-> "none"], emptied |-> 0,
           moved |-> <<>>]

\* The state in which main() enters a mapping.
MappingStart(c) ==
    [ src |-> c.layout, dst |-> c.dest, isize |-> InitIsize(c),
      src_dirs |-> { DirOf(p) : p \in { q \in Paths : c.layout[q] # 0 } },
      dst_dirs |-> { DirOf(p) : p \in { q \in Paths : c.dest[q] # 0 } },
      used |-> c.used ]

\* A mapping of the configuration, its tiers and services as the run finds
\* them, with nothing planned or moved yet.
FirstMapping ==
    /\ pc = "needs_moving"
    /\ \E c \in Configs :
         LET s == MappingStart(c) IN
         /\ src = s.src /\ dst = s.dst /\ isize = s.isize
         /\ src_dirs = s.src_dirs /\ dst_dirs = s.dst_dirs /\ used = s.used
         /\ src0 = s.src /\ dst0 = s.dst /\ isize0 = s.isize /\ dst_dirs0 = s.dst_dirs
         /\ used0 = s.used
         /\ walk_order = c.order /\ ignores = c.ignores /\ ctime = c.ctime
         /\ cw_items = c.cw /\ unwatched = c.unwatched
    /\ tstate = [t \in Torrents |-> "seeding"]
    /\ seen = [c \in Clients |-> {}]
    /\ cache = [c \in Clients |-> [i \in Inodes |-> <<>>]]
    /\ paused_torrents = [c \in Clients |-> <<>>]
    /\ needs = 0 /\ files = <<>> /\ inodes_map = [i \in SrcInodes |-> {}]
    /\ remaining = 0 /\ total = 0 /\ processed = {}
    /\ src_file = "" /\ link_src_file = ""
    /\ emptied = -1
    /\ orphan_credit = 0 /\ moved = <<>> /\ active_skipped = {}
    /\ touched = {} /\ sent = {} /\ failed = {}
    /\ UnitsIdle

\* main() starts on the first mapping, with or without --dry-run.
Init ==
    /\ mi = 1
    /\ dry_run \in BOOLEAN
    /\ faults = 0
    /\ twin = NoTwin
    /\ FirstMapping

\* ------------------------------------------------------- demote: planning

\* A needs_moving that takes every used byte to be over the threshold.
demote_bytes_all(u) == u

\* MovingMapping.needs_moving, config.py line 62: the bytes over the
\* threshold.
demote_bytes(u) == u - (Disk.total * Disk.threshold) \div 100

\* MovingMapping.needs_moving and the early return of move_to_destination.
\* Every client is asked to scan(source) when the tier is over the threshold;
\* an unreachable client indexes nothing.
needs_moving ==
    /\ pc = "needs_moving"
    /\ LET threshold_bytes == demote_bytes(used) IN
       IF threshold_bytes > 0
       THEN \E down \in SUBSET Clients :
              /\ Cardinality(down) <= MaxFaults - faults
              /\ faults' = faults + Cardinality(down)
              /\ cache' = ScanCache("source", down)
              /\ seen' = ScanSeen("source", down)
              /\ needs' = threshold_bytes
              /\ pc' = "walk"
              /\ UNCHANGED emptied
       ELSE /\ needs' = 0
            /\ emptied' = 0
            /\ pc' = "move_to_source"
            /\ UNCHANGED <<faults, cache, seen>>
    /\ UNCHANGED <<unitVars, mi, dry_run, envVars, cfgVars, paused_torrents, files, inodes_map,
                   execVars, initVars, histVars>>

\* The first path of each inode in walk order, if it is within the age range:
\* the tasks of move_to_destination.
Leaders ==
    { p \in Paths :
        /\ src[p] # 0
        /\ \E k \in 1..Len(walk_order) :
              /\ walk_order[k] = p
              /\ \A j \in 1..(k - 1) : src[walk_order[j]] # src[p]
        /\ within_age_range(p) }

\* The walk of move_to_destination, the sort keys and the drained queue.  A
\* media player that cannot be reached makes get_sort_key raise, and the
\* gather of the tasks with it.
walk ==
    /\ pc = "walk"
    /\ inodes_map' = [i \in SrcInodes |-> { p \in Paths : src[p] = i }]
    /\ \/ /\ files' = Drain(Leaders)
          /\ remaining' = needs
          /\ total' = 0
          /\ processed' = {}
          /\ pc' = "move_files"
          /\ UNCHANGED faults
       \/ /\ Leaders # {} /\ \E p \in Leaders : ~is_ignored(p)
          /\ faults < MaxFaults
          /\ faults' = faults + 1
          /\ pc' = "except"
          /\ UNCHANGED <<files, remaining, total, processed>>
    /\ UNCHANGED <<unitVars, mi, dry_run, envVars, cfgVars, qbitVars, needs, src_file, link_src_file,
                   emptied, initVars, histVars>>

\* ------------------------------------------------------ demote: move_files

\* MovingMapping.pause(path): Qbit.pause of every client.  fail[c] = k > 0
\* makes the k-th torrent.pause of client c raise; the torrents before it are
\* paused and recorded, and the other clients' tasks still run.
PauseFailures(p) ==
    { fail \in [Clients -> 0..Cardinality(Torrents)] :
        /\ \A c \in Clients : fail[c] <= Len(ToPause(c, p))
        /\ dry_run => \A c \in Clients : fail[c] = 0
        /\ Cardinality({ c \in Clients : fail[c] # 0 }) <= MaxFaults - faults }

Pausing(c, p, fail) ==
    SubSeq(ToPause(c, p), 1, IF fail[c] = 0 THEN Len(ToPause(c, p)) ELSE fail[c] - 1)

\* A pause that returns without reaching the clients.
mapping_pause_skipped(p, fail) ==
    [ paused_torrents |-> paused_torrents, tstate |-> tstate, sent |-> sent,
      raised |-> FALSE ]

mapping_pause(p, fail) ==
    LET now_paused == UNION { Range(Pausing(c, p, fail)) : c \in Clients } IN
    [ paused_torrents |-> [c \in Clients |-> paused_torrents[c] \o Pausing(c, p, fail)],
      tstate |-> IF dry_run THEN tstate
                 ELSE [t \in Torrents |-> IF t \in now_paused THEN "paused" ELSE tstate[t]],
      sent |-> IF dry_run THEN sent ELSE sent \cup { <<t, "pause">> : t \in now_paused },
      raised |-> \E c \in Clients : fail[c] # 0 ]

\* MovingMapping.is_active: one probe per media player, consumed as they
\* complete.  The call raises when a failed probe is consumed before any
\* probe that reports playback; it yields TRUE when a probe reporting
\* playback is consumed before any failed one.
ProbeResults == {"idle", "playing", "error"}
is_active_outcomes(answers) ==
    (IF \E m \in Players : answers[m] = "error" THEN {"raise"} ELSE {})
    \cup (IF \E m \in Players : answers[m] = "playing" THEN {"active"} ELSE {})
    \cup (IF \A m \in Players : answers[m] = "idle" THEN {"inactive"} ELSE {})

\* A loop that does not stop at the budget.
budget_reached_never(left) == FALSE

\* cache_mover.py lines 29-31: the budget is used up.
budget_reached(left) == left <= 0

\* A loop that moves the file although it is in use.
skip_if_active_never(out) == FALSE

\* cache_mover.py lines 33-35: a file in use is skipped.
skip_if_active(out) == out = "active"

\* The probes answer a real run as they answered the dry run it repeats.
SameSignals(f, out) ==
    twin.pass = 2 /\ twin.answers[get_stat(f).st_ino] # "none"
        => out = twin.answers[get_stat(f).st_ino]

\* cache_mover.py lines 19-37: the head of the loop of move_files.
select_file ==
    /\ pc = "move_files"
    /\ IF files = <<>>
       THEN /\ pc' = "delete_empty_dirs"
            /\ UNCHANGED <<files, src_file, faults, active_skipped>>
       ELSE LET f == Head(files) IN
            /\ files' = Tail(files)
            /\ IF f \in processed \/ is_ignored(f)
               THEN /\ pc' = "move_files"
                    /\ UNCHANGED <<src_file, faults, active_skipped>>
               ELSE IF budget_reached(remaining)
               THEN /\ pc' = "delete_empty_dirs"
                    /\ UNCHANGED <<src_file, faults, active_skipped>>
               ELSE \E answers \in [Players -> ProbeResults] :
                    \E out \in is_active_outcomes(answers) :
                      /\ Cardinality({ m \in Players : answers[m] = "error" })
                            <= MaxFaults - faults
                      /\ SameSignals(f, out)
                      /\ faults' = faults
                            + Cardinality({ m \in Players : answers[m] = "error" })
                      /\ active_skipped' =
                            IF out = "active"
                            THEN active_skipped \cup {get_stat(f).st_ino}
                            ELSE active_skipped
                      /\ IF out = "raise"
                         THEN pc' = "except" /\ UNCHANGED src_file
                         ELSE IF skip_if_active(out)
                         THEN pc' = "move_files" /\ UNCHANGED src_file
                         ELSE pc' = "pause" /\ src_file' = f
    /\ UNCHANGED <<unitVars, mi, dry_run, envVars, cfgVars, qbitVars, needs, inodes_map,
                   remaining, total, processed, link_src_file, emptied, initVars,
                   failed, orphan_credit, moved, touched, sent>>

\* cache_mover.py lines 39-41: stat of the leader and mapping.pause(src_file).
pause_leader ==
    /\ pc = "pause"
    /\ \E fail \in PauseFailures(src_file) :
         LET r == mapping_pause(src_file, fail) IN
         /\ paused_torrents' = r.paused_torrents
         /\ tstate' = r.tstate
         /\ sent' = r.sent
         /\ faults' = faults + Cardinality({ c \in Clients : fail[c] # 0 })
         /\ pc' = IF r.raised THEN "except" ELSE "copy"
    /\ touched' = touched \cup {src_file}
    /\ UNCHANGED <<unitVars, mi, dry_run, src, dst, isize, src_dirs, dst_dirs, used, cfgVars,
                   seen, cache, planVars, execVars, emptied, initVars,
                   failed, orphan_credit, moved, active_skipped>>

\* The outcomes of maybe_create_dir and of the operation after it that the
\* environment may choose at a destination path: none in a dry run, and no
\* mkdir outcome when the directory exists.
Applicable(p, mk, op) ==
    /\ dry_run => mk = "ok" /\ op = "ok"
    /\ DirOf(p) \in dst_dirs => mk = "ok"
    /\ Failures(<<mk, op>>) <= MaxFaults - faults

\* The counterpart of p on the destination exists with the size of p.
SameSize(fs, p) == fs.dst[p] # 0 /\ fs.isize[fs.dst[p]] = get_stat(p).st_size

\* cache_mover.py lines 43-50: the copy of the leader, unless a file of the
\* same size is at the destination.
copy_leader ==
    /\ pc = "copy"
    /\ IF is_same_file(src_file)
       THEN /\ pc' = "links"
            /\ UNCHANGED <<envVars, faults, touched, failed>>
       ELSE \E mk \in MkOutcomes, cp \in CpOutcomes :
              LET r == copy_file_with_metadata(FS, src_file, mk, cp) IN
              /\ Applicable(src_file, mk, cp)
              /\ SetFS(r.fs)
              /\ faults' = faults + Failures(<<mk, cp>>)
              /\ touched' = touched \cup {src_file}
              /\ failed' = IF ~dry_run /\ (r.raised \/ ~SameSize(r.fs, src_file))
                            THEN failed \cup {<<src_file, "copy">>} ELSE failed
              /\ pc' = IF r.raised THEN "except" ELSE "links"
              /\ UNCHANGED tstate
    /\ processed' = processed \cup {src_file}
    /\ UNCHANGED <<unitVars, mi, dry_run, cfgVars, qbitVars, planVars, remaining, total, src_file,
                   link_src_file, emptied, initVars, orphan_credit, moved,
                   active_skipped, sent>>

\* cache_mover.py lines 52-57: the next path of the leader's inode that is
\* not processed yet (a set is iterated: any order) and its pause.
pause_link ==
    /\ pc = "links"
    /\ \E l \in inodes_map[get_stat(src_file).st_ino] \ processed :
         /\ link_src_file' = l
         /\ \E fail \in PauseFailures(l) :
              LET r == mapping_pause(l, fail) IN
              /\ paused_torrents' = r.paused_torrents
              /\ tstate' = r.tstate
              /\ sent' = r.sent
              /\ faults' = faults + Cardinality({ c \in Clients : fail[c] # 0 })
              /\ pc' = IF r.raised THEN "except" ELSE "link"
         /\ touched' = touched \cup {l}
    /\ UNCHANGED <<unitVars, mi, dry_run, src, dst, isize, src_dirs, dst_dirs, used, cfgVars,
                   seen, cache, planVars, remaining, total, processed, src_file,
                   emptied, initVars, failed, orphan_credit, moved, active_skipped>>

\* cache_mover.py lines 58-67: a destination file of another size is deleted
\* and credited, then the link is made.
link_sibling ==
    /\ pc = "link"
    /\ IF is_same_file(link_src_file)
       THEN /\ pc' = "link_delete"
            /\ UNCHANGED <<envVars, faults, total, orphan_credit, failed>>
       ELSE \E del \in {"ok", "delete_failed"}, mk \in MkOutcomes, lk \in LkOutcomes :
              LET exists == dst[link_src_file] # 0
                  credit == IF exists THEN dest_stat(link_src_file).st_size ELSE 0
                  fs1 == IF exists THEN delete_dst(FS, link_src_file, del = "ok") ELSE FS
                  r == link_file(fs1, src_file, link_src_file, mk, lk)
              IN
              /\ Applicable(link_src_file, mk, lk)
              /\ del # "ok" => exists /\ ~dry_run
              /\ Failures(<<del, mk, lk>>) <= MaxFaults - faults
              /\ SetFS(r.fs)
              /\ faults' = faults + Failures(<<del, mk, lk>>)
              /\ total' = total + credit
              /\ orphan_credit' = orphan_credit + credit
              /\ failed' = IF r.raised THEN failed \cup {<<link_src_file, "link">>} ELSE failed
              /\ pc' = IF r.raised THEN "except" ELSE "link_delete"
              /\ UNCHANGED tstate
    /\ touched' = touched \cup {link_src_file}
    /\ UNCHANGED <<unitVars, mi, dry_run, cfgVars, qbitVars, planVars, remaining, processed,
                   src_file, link_src_file, emptied, initVars, moved, active_skipped,
                   sent>>

\* cache_mover.py lines 69-70: the sibling is marked processed and deleted.
delete_link ==
    /\ pc = "link_delete"
    /\ processed' = processed \cup {link_src_file}
    /\ \E ok \in BOOLEAN :
         /\ ~ok => ~dry_run /\ faults < MaxFaults
         /\ faults' = IF ok THEN faults ELSE faults + 1
         /\ SetFS(delete_src(FS, link_src_file, ok))
    /\ pc' = "links"
    /\ touched' = touched \cup {link_src_file}
    /\ UNCHANGED <<unitVars, mi, dry_run, tstate, cfgVars, qbitVars, planVars, remaining, total,
                   src_file, link_src_file, emptied, initVars, failed, orphan_credit, moved,
                   active_skipped, sent>>

\* An executor that counts the size once for each path of the inode.
moved_bytes_per_path(p) ==
    get_stat(p).st_size * Cardinality(inodes_map[get_stat(p).st_ino])

\* cache_mover.py lines 73-74: what a handled group adds to the total and
\* takes off the budget.
moved_bytes(p) == get_stat(p).st_size

\* cache_mover.py lines 72-74: every link is handled; the leader is deleted
\* and the size of the inode is credited and taken off the budget.
delete_leader ==
    /\ pc = "links"
    /\ inodes_map[get_stat(src_file).st_ino] \ processed = {}
    /\ \E ok \in BOOLEAN :
         /\ ~ok => ~dry_run /\ faults < MaxFaults
         /\ faults' = IF ok THEN faults ELSE faults + 1
         /\ SetFS(delete_src(FS, src_file, ok))
    /\ total' = total + moved_bytes(src_file)
    /\ remaining' = remaining - moved_bytes(src_file)
    /\ moved' = Append(moved, get_stat(src_file).st_ino)
    /\ pc' = "move_files"
    /\ touched' = touched \cup {src_file}
    /\ UNCHANGED <<unitVars, mi, dry_run, tstate, cfgVars, qbitVars, planVars, processed,
                   src_file, link_src_file, emptied, initVars, orphan_credit,
                   active_skipped, sent, failed>>

\* --------------------------------------------- the rest of the two phases

\* helpers.delete_empty_dirs(source, is_ignored), after move_files returned:
\* every empty directory that is not ignored is removed; an os.rmdir that
\* fails raises, with the directories visited before it removed.
EmptyDirs(fs) ==
    { d \in fs.src_dirs : ~is_ignored(d) /\ \A p \in Paths : DirOf(p) = d => fs.src[p] = 0 }

delete_empty_dirs ==
    /\ pc = "delete_empty_dirs"
    /\ \/ /\ SetFS(execute(FS, [FS EXCEPT !.src_dirs = @ \ EmptyDirs(FS)]))
          /\ emptied' = total
          /\ pc' = "move_to_source"
          /\ UNCHANGED faults
       \/ /\ ~dry_run /\ faults < MaxFaults
          /\ \E d \in EmptyDirs(FS) : \E gone \in SUBSET (EmptyDirs(FS) \ {d}) :
               SetFS([FS EXCEPT !.src_dirs = @ \ gone])
          /\ faults' = faults + 1
          /\ pc' = "except"
          /\ UNCHANGED emptied
    /\ UNCHANGED <<unitVars, mi, dry_run, tstate, cfgVars, qbitVars, planVars, execVars,
                   initVars, histVars>>

\* MovingMapping.eligible_for_source: the destination paths the media
\* players enqueue (not on the source, present on the destination).
eligible_for_source ==
    { p \in UNION { cw_items[m] : m \in Players } : src[p] = 0 /\ dst[p] # 0 }

\* A promotion that removes the files it promotes from the destination.
move_to_source_deleting ==
    /\ pc = "move_to_source"
    /\ eligible_for_source # {}
    /\ dst' = [p \in Paths |-> IF p \in eligible_for_source THEN 0 ELSE dst[p]]
    /\ pc' = "finally"
    /\ UNCHANGED <<unitVars, mi, dry_run, faults, src, isize, src_dirs, dst_dirs, used, tstate,
                   cfgVars, qbitVars, planVars, execVars, emptied, initVars, histVars>>

\* A promotion that links the files it promotes at their source locations.
move_to_source_linking ==
    /\ pc = "move_to_source"
    /\ eligible_for_source # {}
    /\ src' = [p \in Paths |-> IF p \in eligible_for_source THEN FreshInode(p) ELSE src[p]]
    /\ pc' = "finally"
    /\ UNCHANGED <<unitVars, mi, dry_run, faults, dst, isize, src_dirs, dst_dirs, used, tstate,
                   cfgVars, qbitVars, planVars, execVars, emptied, initVars, histVars>>

\* move_to_source with can_move_to_source.  With candidates to promote, the
\* clients scan(destination); files_to_move then holds (path, metadata)
\* pairs, and helpers.get_stat of a pair raises TypeError (line 138).
move_to_source ==
    /\ pc = "move_to_source"
    /\ LET threshold_bytes == (Disk.total * Disk.cache_threshold) \div 100 - used IN
       IF Disk.cache_threshold = 0 \/ threshold_bytes <= 0
       THEN /\ pc' = "finally"
            /\ UNCHANGED <<faults, cache, seen>>
       ELSE \/ /\ eligible_for_source = {}
               /\ pc' = "finally"
               /\ UNCHANGED <<faults, cache, seen>>
            \/ /\ eligible_for_source # {}
               /\ \E down \in SUBSET Clients :
                    /\ Cardinality(down) <= MaxFaults - faults
                    /\ faults' = faults + Cardinality(down)
                    /\ cache' = ScanCache("destination", down)
                    /\ seen' = ScanSeen("destination", down)
               /\ pc' = "except"
            \/ /\ \E m \in Players : cw_items[m] # {}
               /\ faults < MaxFaults
               /\ faults' = faults + 1
               /\ pc' = "except"
               /\ UNCHANGED <<cache, seen>>
    /\ UNCHANGED <<unitVars, mi, dry_run, envVars, cfgVars, paused_torrents, planVars, execVars,
                   emptied, initVars, histVars>>

\* cache_mover.py lines 175-178: the exception is logged.
except_handler ==
    /\ pc = "except"
    /\ pc' = "finally"
    /\ UNCHANGED <<unitVars, mi, dry_run, faults, envVars, cfgVars, qbitVars, planVars, execVars,
                   emptied, initVars, histVars>>

\* Qbit.resume of client c: the recorded torrents are popped from the end and
\* resumed.  fail[c] = k > 0 makes the k-th torrent.resume raise: that
\* torrent is popped already and the ones under it stay recorded.
ResumeFailures ==
    { fail \in [Clients -> 0..Cardinality(Torrents)] :
        /\ \A c \in Clients : fail[c] <= Len(paused_torrents[c])
        /\ dry_run => \A c \in Clients : fail[c] = 0
        /\ Cardinality({ c \in Clients : fail[c] # 0 }) <= MaxFaults - faults }

Popped(c, fail) ==
    LET n == Len(paused_torrents[c])
        k == IF fail[c] = 0 THEN n ELSE fail[c]
    IN [ left |-> SubSeq(paused_torrents[c], 1, n - k),
         resumed |-> { paused_torrents[c][j] :
                        j \in (n - (IF fail[c] = 0 THEN n ELSE fail[c] - 1) + 1)..n } ]

qbit_resume(fail) ==
    LET resumed == UNION { Popped(c, fail).resumed : c \in Clients } IN
    [ paused_torrents |-> [c \in Clients |-> Popped(c, fail).left],
      tstate |-> IF dry_run THEN tstate
                 ELSE [t \in Torrents |-> IF t \in resumed THEN "seeding" ELSE tstate[t]],
      sent |-> IF dry_run THEN sent ELSE sent \cup { <<t, "resume">> : t \in resumed },
      raised |-> \E c \in Clients : fail[c] # 0 ]

\* cache_mover.py lines 179-180 with MovingMapping.aclose: the finally block.
\* An exception of a resume leaves main() through the finally block.
aclose ==
    /\ pc = "finally"
    /\ \E fail \in ResumeFailures :
         LET r == qbit_resume(fail) IN
         /\ paused_torrents' = r.paused_torrents
         /\ tstate' = r.tstate
         /\ sent' = r.sent
         /\ faults' = faults + Cardinality({ c \in Clients : fail[c] # 0 })
         /\ pc' = IF r.raised THEN "crashed" ELSE "left"
    /\ UNCHANGED <<unitVars, mi, dry_run, src, dst, isize, src_dirs, dst_dirs, used, cfgVars,
                   seen, cache, planVars, execVars, emptied, initVars,
                   failed, orphan_credit, moved, active_skipped, touched>>

\* The per-mapping values before a mapping is entered.
Blank ==
    /\ tstate' = [t \in Torrents |-> "seeding"]
    /\ seen' = [c \in Clients |-> {}]
    /\ cache' = [c \in Clients |-> [i \in Inodes |-> <<>>]]
    /\ paused_torrents' = [c \in Clients |-> <<>>]
    /\ needs' = 0 /\ files' = <<>> /\ inodes_map' = [i \in SrcInodes |-> {}]
    /\ remaining' = 0 /\ total' = 0 /\ processed' = {}
    /\ src_file' = "" /\ link_src_file' = ""
    /\ emptied' = -1
    /\ orphan_credit' = 0 /\ moved' = <<>> /\ active_skipped' = {}
    /\ touched' = {} /\ sent' = {} /\ failed' = {}

\* cache_mover.py line 165: the loop of main() leaves the mapping; nothing of
\* it is used again.
leave_mapping ==
    /\ pc = "left"
    /\ mi < NumMappings
    /\ mi' = mi + 1
    /\ pc' = "next"
    /\ faults' = 0
    /\ src' = NoFiles /\ dst' = NoFiles /\ isize' = [i \in Inodes |-> 0]
    /\ src_dirs' = {} /\ dst_dirs' = {} /\ used' = 0
    /\ src0' = NoFiles /\ dst0' = NoFiles /\ isize0' = [i \in Inodes |-> 0]
    /\ dst_dirs0' = {} /\ used0' = 0
    /\ UNCHANGED twin
    /\ walk_order' = <<>> /\ ignores' = {} /\ ctime' = [i \in SrcInodes |-> 0]
    /\ cw_items' = [m \in Players |-> {}]
    /\ unwatched' = [m \in Players |-> [i \in SrcInodes |-> 0]]
    /\ Blank
    /\ UNCHANGED <<unitVars, dry_run>>

\* The next mapping of config.mappings, with its own tiers, clients and
\* media players.
next_mapping ==
    /\ pc = "next"
    /\ pc' = "needs_moving"
    /\ \E c \in LaterConfigs :
         LET s == MappingStart(c) IN
         /\ src' = s.src /\ dst' = s.dst /\ isize' = s.isize
         /\ src_dirs' = s.src_dirs /\ dst_dirs' = s.dst_dirs /\ used' = s.used
         /\ src0' = s.src /\ dst0' = s.dst /\ isize0' = s.isize /\ dst_dirs0' = s.dst_dirs
         /\ used0' = s.used
         /\ walk_order' = c.order /\ ignores' = c.ignores /\ ctime' = c.ctime
         /\ cw_items' = c.cw /\ unwatched' = c.unwatched
    /\ UNCHANGED <<unitVars, mi, dry_run, faults, tstate, qbitVars, planVars, execVars, emptied,
                   histVars, twin>>

Next ==
    \/ needs_moving
    \/ walk
    \/ select_file
    \/ pause_leader
    \/ copy_leader
    \/ pause_link
    \/ link_sibling
    \/ delete_link
    \/ delete_leader
    \/ delete_empty_dirs
    \/ move_to_source
    \/ except_handler
    \/ aclose
    \/ leave_mapping
    \/ next_mapping

Spec == Init /\ [][Next]_vars

\* ------------------------------------------- a dry run, then the real run

\* The script is run with --dry-run on the last mapping, and no operation
\* fails in either run.
InitTwin ==
    /\ mi = NumMappings
    /\ dry_run = TRUE
    /\ faults = MaxFaults
    /\ twin = [NoTwin EXCEPT !.pass = 1]
    /\ FirstMapping

\* The demotion of the dry run returned; the script is started again without
\* --dry-run on the tiers as the dry run left them, with new clients.  What
\* the dry run moved and what the media players answered is kept.
rerun ==
    /\ pc = "move_to_source"
    /\ twin.pass = 1
    /\ twin' = [pass |-> 2,
                answers |-> [i \in SrcInodes |->
                               IF i \in active_skipped THEN "active"
                               ELSE IF i \in Range(moved) THEN "inactive"
                               ELSE "none"],
                emptied |-> emptied,
                moved |-> moved]
    /\ dry_run' = FALSE
    /\ pc' = "needs_moving"
    /\ Blank
    /\ UNCHANGED <<unitVars, mi, faults, src, dst, isize, src_dirs, dst_dirs, used, cfgVars,
                   src0, dst0, isize0, dst_dirs0, used0>>

NextTwin ==
    \/ needs_moving
    \/ walk
    \/ select_file
    \/ pause_leader
    \/ copy_leader
    \/ pause_link
    \/ link_sibling
    \/ delete_link
    \/ delete_leader
    \/ delete_empty_dirs
    \/ rerun

SpecTwin == InitTwin /\ [][NextTwin]_vars

\* ------------------------------------ the run at rest, components on their own

\* main() is not running: the specifications below exercise one component
\* of the program at a time, on inputs drawn from bounded sets.
RunIdle ==
    /\ mi = 0 /\ pc = "idle" /\ dry_run = FALSE /\ faults = 0
    /\ isize = [i \in Inodes |-> 0]
    /\ src_dirs = {} /\ dst_dirs = {} /\ used = 0
    /\ tstate = [t \in Torrents |-> "seeding"]
    /\ ignores = {} /\ ctime = [i \in SrcInodes |-> 0]
    /\ cw_items = [m \in Players |-> {}]
    /\ unwatched = [m \in Players |-> [i \in SrcInodes |-> 0]]
    /\ seen = [c \in Clients |-> {}]
    /\ cache = [c \in Clients |-> [i \in Inodes |-> <<>>]]
    /\ paused_torrents = [c \in Clients |-> <<>>]
    /\ needs = 0 /\ files = <<>> /\ inodes_map = [i \in SrcInodes |-> {}]
    /\ remaining = 0 /\ total = 0 /\ processed = {}
    /\ src_file = "" /\ link_src_file = ""
    /\ emptied = -1
    /\ dst0 = NoFiles /\ isize0 = [i \in Inodes |-> 0]
    /\ dst_dirs0 = {} /\ used0 = 0 /\ twin = NoTwin
    /\ orphan_credit = 0 /\ moved = <<>> /\ active_skipped = {}
    /\ touched = {} /\ sent = {} /\ failed = {}

\* No tier holds a file.
MainIdle ==
    /\ RunIdle
    /\ src = NoFiles /\ dst = NoFiles /\ src0 = NoFiles /\ walk_order = <<>>

\* ------------------------- move_to_destination: the sort-key tasks and the queue

\* Slots of asyncio.Semaphore(os.cpu_count() or 4).
CpuCount == 2

\* Key tuples MovingMapping.get_sort_key returns: the key of an ignored path,
\* and keys that differ in continue_watching, in the size or in the birth
\* time only.
KeyChoices ==
    { <<1, 0, 0, 0, 0, 0, 0, 0>>,
      <<0, 0, 1, 0, 0, 0, 2, -1, 5>>,
      <<0, 0, 1, 0, 0, 0, 2, -2, 5>>,
      <<0, 0, 1, 0, 0, 0, 2, -2, 6>>,
      <<1, 0, 1, 0, 0, 0, 2, -1, 5>> }

\* The metadata dict get_sort_key returns next to the key: every entry is
\* computed from a value the key holds; {} for an ignored path.
metadata(key) ==
    IF Len(key) = 8 THEN << >>
    ELSE [continue_watching |-> key[1], users_left_to_watch |-> key[2],
          num_torrents |-> key[7], torrent_eta |-> key[4],
          completion_age |-> - key[5], num_seeders |-> - key[6],
          size |-> - key[8], age |-> Clock.now - key[9]]

\* The entry enqueue_with_key puts: ((key, metadata), src_file).
Entry(p) == [key |-> sort_key[p], metadata |-> metadata(sort_key[p]), path |-> p]

\* Python's < on two entries: the keys decide; with equal keys the metadata
\* dicts are compared for equality and, when equal, the paths decide.  Dicts
\* that differ cannot be ordered: the comparison raises.
entry_raises(e, f) == e.key = f.key /\ e.metadata # f.metadata
entry_lt(e, f) ==
    \/ TupleLess(e.key, f.key)
    \/ e.key = f.key /\ e.metadata = f.metadata /\ PathRank(e.path) < PathRank(f.path)

\* A queue that hands its entries out in the order they were put.
pq_get_fifo(q) == 1

\* PriorityQueue.get: the index in q of the lowest entry.
pq_get(q) == CHOOSE k \in 1..Len(q) : \A j \in 1..Len(q) : j = k \/ entry_lt(q[k], q[j])

RemoveAt(q, k) == SubSeq(q, 1, k - 1) \o SubSeq(q, k + 1, Len(q))

notPlanVars == <<mainVars, unitsButPlan>>

\* The walk found the candidates; one task per candidate is created.
InitPlan ==
    /\ MainIdle /\ IdleButPlan
    /\ \E cands \in SUBSET Paths :
         /\ cands # {}
         /\ sort_key \in [cands -> KeyChoices]
         /\ tasks = [p \in cands |-> "created"]
    /\ sem = CpuCount
    /\ pq = <<>>
    /\ plan = <<>>

\* enqueue_with_key enters `async with sem` and awaits get_sort_key.
task_acquire ==
    /\ \E p \in DOMAIN tasks :
         /\ tasks[p] = "created"
         /\ sem > 0
         /\ sem' = sem - 1
         /\ tasks' = [tasks EXCEPT ![p] = "get_sort_key"]
    /\ UNCHANGED <<sort_key, pq, plan, notPlanVars>>

\* get_sort_key returned: the task puts its entry and leaves the semaphore.
task_put ==
    /\ \E p \in DOMAIN tasks :
         /\ tasks[p] = "get_sort_key"
         /\ pq' = Append(pq, Entry(p))
         /\ sem' = sem + 1
         /\ tasks' = [tasks EXCEPT ![p] = "done"]
    /\ UNCHANGED <<sort_key, plan, notPlanVars>>

\* After the gather of the tasks: the next (await pq.get())[1] of the list
\* handed to move_files.
plan_get ==
    /\ \A p \in DOMAIN tasks : tasks[p] = "done"
    /\ pq # <<>>
    /\ \A i, j \in 1..Len(pq) : ~entry_raises(pq[i], pq[j])
    /\ plan' = Append(plan, pq[pq_get(pq)].path)
    /\ pq' = RemoveAt(pq, pq_get(pq))
    /\ UNCHANGED <<sort_key, tasks, sem, notPlanVars>>

NextPlan ==
    \/ task_acquire
    \/ task_put
    \/ plan_get

SpecPlan == InitPlan /\ [][NextPlan]_vars

\* ---------------------------------- Qbit: scan, get_sort_key and pause calls

\* Number of scan calls made on the object.
MaxScans == 2
Roots == {"source", "destination"}

\* What submit() appends to self.cache[i] for the torrents ts.
IndexedBy(c, ts, root, i) ==
    FlatMap(ts,
            [t \in Torrents |->
                FlatMap(walk_order,
                        [p \in Paths |->
                            IF Covers(t, p) /\ TierIno(root, p) = i /\ i # 0
                            THEN <<t>> ELSE <<>>])])

\* self.cache of client c after submit() went through the torrents ts.
Appended(c, ts, root) ==
    [cache EXCEPT ![c] = [i \in Inodes |-> cache[c][i] \o IndexedBy(c, ts, root, i)]]

\* A reader that does not wait for the semaphore.
can_read_always(s) == TRUE

\* `async with self.sem` of __get_torrents: the reader enters when the
\* semaphore is free; nothing awaits inside, so it leaves in the same step.
can_read(s) == s > 0

\* A wrapper that leaves without releasing.
wrapper_finally_skipped(s) == s

\* The finally block of wrapper(): self.sem.release().
wrapper_finally(s) == s + 1

InScan(sts) == { k \in DOMAIN scan_calls : scan_calls[k].st \in sts }

notScanVars ==
    <<mi, pc, dry_run, faults, envVars, cfgVars, needs, files, inodes_map, execVars,
      emptied, initVars, histVars, unitsButScan>>

\* A Qbit object of a mapping whose tiers hold files; nothing was scanned.
InitScan ==
    /\ RunIdle /\ IdleButScan
    /\ src \in SrcLayouts /\ src0 = src
    /\ dst \in {NoFiles, DemotedLayout}
    /\ walk_order \in WalkOrders
    /\ qbit \in Clients
    /\ qbit_sem = 1
    /\ scan_calls = [k \in 1..MaxScans |-> [root |-> "", st |-> "idle"]]
    /\ enumerated = [r \in Roots |-> 0]
    /\ read_log = {}

\* scan(root) is called: it returns at once when the root was seen;
\* otherwise it takes the semaphore, creates the wrapper task and returns,
\* or it waits in self.sem.acquire().
scan_call ==
    /\ \E k \in InScan({"idle"}), root \in Roots :
         scan_calls' = [scan_calls EXCEPT ![k] =
            [root |-> root,
             st |-> IF root \in seen[qbit] THEN "seen"
                    ELSE IF qbit_sem > 0 THEN "submitted" ELSE "acquire"]]
         /\ qbit_sem' = IF root \notin seen[qbit] /\ qbit_sem > 0 THEN qbit_sem - 1
                        ELSE qbit_sem
    /\ UNCHANGED <<qbit, enumerated, read_log, seen, cache, paused_torrents, notScanVars>>

\* A scan waiting in self.sem.acquire() gets the semaphore, creates the
\* wrapper task and returns.
scan_acquire ==
    /\ \E k \in InScan({"acquire"}) :
         /\ qbit_sem > 0
         /\ qbit_sem' = qbit_sem - 1
         /\ scan_calls' = [scan_calls EXCEPT ![k].st = "submitted"]
    /\ UNCHANGED <<qbit, enumerated, read_log, seen, cache, paused_torrents, notScanVars>>

\* submit() in the worker thread fetched the torrents and indexed the first.
submit_begin ==
    /\ \E k \in InScan({"submitted"}) :
         /\ cache' = Appended(qbit, SubSeq(TorrentList(qbit), 1, 1), scan_calls[k].root)
         /\ enumerated' = [enumerated EXCEPT ![scan_calls[k].root] = @ + 1]
         /\ scan_calls' = [scan_calls EXCEPT ![k].st = "populating"]
    /\ UNCHANGED <<qbit, qbit_sem, read_log, seen, paused_torrents, notScanVars>>

\* submit() indexed the remaining torrents and returned: the wrapper adds
\* the root to self.seen and releases the semaphore.
submit_end ==
    /\ \E k \in InScan({"populating"}) :
         /\ cache' = Appended(qbit, Tail(TorrentList(qbit)), scan_calls[k].root)
         /\ seen' = [seen EXCEPT ![qbit] = @ \cup {scan_calls[k].root}]
         /\ qbit_sem' = wrapper_finally(qbit_sem)
         /\ scan_calls' = [scan_calls EXCEPT ![k].st = "done"]
    /\ UNCHANGED <<qbit, enumerated, read_log, paused_torrents, notScanVars>>

\* The client cannot be reached: self.__torrents raises in the worker
\* thread before anything is indexed; the wrapper releases the semaphore and
\* the exception ends the task.
submit_fail ==
    /\ \E k \in InScan({"submitted"}) :
         /\ qbit_sem' = wrapper_finally(qbit_sem)
         /\ scan_calls' = [scan_calls EXCEPT ![k].st = "failed"]
    /\ UNCHANGED <<qbit, enumerated, read_log, seen, cache, paused_torrents, notScanVars>>

\* What a call of get_sort_key or pause for the source path p returned or
\* paused, and what it is recorded with: whether an enumeration was populating the index
\* (torn), whether entries of a scan that returned were missing, and
\* whether a scan of the source failed and none indexed anything.
Observation(kind, p, result) ==
    [kind |-> kind, path |-> p, result |-> result,
     torn |-> InScan({"populating"}) # {},
     missing |-> \E k \in InScan({"seen", "submitted", "populating", "done"}) :
                    ~(Range(IndexedBy(qbit, TorrentList(qbit), scan_calls[k].root,
                                      get_stat(p).st_ino))
                        \subseteq Range(cache[qbit][get_stat(p).st_ino])),
     failed |-> /\ \E k \in InScan({"failed"}) : scan_calls[k].root = "source"
                /\ enumerated["source"] = 0]

\* Qbit.get_sort_key(path)
qbit_sort_key_call ==
    /\ can_read(qbit_sem)
    /\ \E p \in { q \in Paths : src[q] # 0 } :
         read_log' = {Observation("get_sort_key", p, qbit_get_sort_key(qbit, p))}
    /\ UNCHANGED <<qbit, qbit_sem, scan_calls, enumerated, seen, cache, paused_torrents,
                   notScanVars>>

\* Qbit.pause(path): the torrents read from the index that are not paused
\* yet are paused and recorded.
qbit_pause_call ==
    /\ can_read(qbit_sem)
    /\ \E p \in { q \in Paths : src[q] # 0 } :
         /\ read_log' = {Observation("pause", p, Range(ToPause(qbit, p)))}
         /\ paused_torrents' = [paused_torrents EXCEPT ![qbit] = @ \o ToPause(qbit, p)]
         /\ tstate' = [t \in Torrents |->
                         IF t \in Range(ToPause(qbit, p)) THEN "paused" ELSE tstate[t]]
    /\ UNCHANGED <<qbit, qbit_sem, scan_calls, enumerated, seen, cache, mi, pc, dry_run,
                   faults, src, dst, isize, src_dirs, dst_dirs, used, cfgVars, needs, files,
                   inodes_map, execVars, emptied, initVars, histVars, unitsButScan>>

NextScan ==
    \/ scan_call
    \/ scan_acquire
    \/ submit_begin
    \/ submit_end
    \/ submit_fail
    \/ qbit_sort_key_call
    \/ qbit_pause_call

SpecScan == InitScan /\ [][NextScan]_vars

\* --------------------------------------------------------------- rewriter.py

\* An absolute path is the sequence of its components: <<"mnt", "cache">> is
\* "/mnt/cache" and <<>> is "/".  A relative path is a sequence that may
\* hold "." and "..".

\* Longest path drawn as an input, in components.
MaxDepth == 3
Names == {"mnt", "cache", "user0", "data", "m"}
AbsPaths == UNION { [1..k -> Names] : k \in 1..MaxDepth }

RECURSIVE normpath(_)
\* os.path.normpath of an absolute path: "." is dropped, ".." drops the
\* component before it and is dropped itself at the root.
normpath(path) ==
    IF path = <<>> THEN <<>>
    ELSE LET init == normpath(SubSeq(path, 1, Len(path) - 1))
             last == path[Len(path)]
         IN IF last = "." THEN init
            ELSE IF last = ".." THEN SubSeq(init, 1, Len(init) - 1)
            ELSE Append(init, last)

\* os.path.abspath of an absolute path.
abspath(path) == normpath(path)

RECURSIVE commonprefix(_, _)
\* The components two paths start with in common.
commonprefix(a, b) ==
    IF a = <<>> \/ b = <<>> \/ Head(a) # Head(b) THEN <<>>
    ELSE <<Head(a)>> \o commonprefix(Tail(a), Tail(b))

\* os.path.commonpath([a, b]) of two absolute paths.
commonpath(a, b) == commonprefix(normpath(a), normpath(b))

\* os.path.relpath(path, start): ".." for every component of start after
\* the common prefix, then the rest of path; "." when nothing is left.  On
\* POSIX it raises ValueError for an empty path only, so the except
\* branches of the rewriters are never taken.
relpath(path, start) ==
    LET pl == abspath(path)
        sl == abspath(start)
        i == Len(commonprefix(sl, pl))
        rel == [k \in 1..(Len(sl) - i) |-> ".."] \o SubSeq(pl, i + 1, Len(pl))
    IN IF rel = <<>> THEN <<".">> ELSE rel

\* os.path.join of an absolute path and relative ones; "" adds nothing.
join(root, rel) == root \o rel

\* RealRewriter.__init__: "." becomes ""; lstrip(os.sep) finds no leading
\* separator in what relpath returns.
RealRewriter(source, destination, from, to) ==
    [class |-> "RealRewriter", source |-> source, destination |-> destination,
     rel_path |-> IF relpath(to, source) = <<".">> THEN <<>> ELSE relpath(to, source),
     _from |-> from, to |-> to]

\* NoopRewriter.__init__
NoopRewriter(source, destination) ==
    [class |-> "NoopRewriter", source |-> source, destination |-> destination]

\* A rewrite that leaves out the directory of `to` below the source.
real_rewrite_no_rel_path(rw, root, path) ==
    normpath(join(root, relpath(abspath(path), rw._from)))

\* RealRewriter.rewrite
real_rewrite(rw, root, path) ==
    normpath(join(join(root, rw.rel_path), relpath(abspath(path), rw._from)))

\* RealRewriter.restore: the first tier root the path is under decides.
real_restore(rw, path) ==
    LET ap == abspath(path) IN
    IF commonpath(ap, rw.source) = rw.source
    THEN normpath(join(rw._from, relpath(ap, join(rw.source, rw.rel_path))))
    ELSE IF commonpath(ap, rw.destination) = rw.destination
    THEN normpath(join(rw._from, relpath(ap, join(rw.destination, rw.rel_path))))
    ELSE ap

\* A rewrite that ignores the root it is given.
noop_rewrite_identity(rw, root, path) == path

\* NoopRewriter.rewrite
noop_rewrite(rw, root, path) == normpath(join(root, relpath(path, rw.source)))

\* NoopRewriter.restore: the joined path is not normalised.
noop_restore(rw, path) ==
    LET ap == abspath(path) IN
    IF commonpath(ap, rw.source) = rw.source
    THEN join(rw.source, relpath(ap, rw.source))
    ELSE IF commonpath(ap, rw.destination) = rw.destination
    THEN join(rw.source, relpath(ap, rw.destination))
    ELSE ap

rewrite(rw, root, path) ==
    IF rw.class = "RealRewriter" THEN real_rewrite(rw, root, path)
    ELSE noop_rewrite(rw, root, path)

\* A restore that returns its argument.
restore_identity(rw, path) == path

restore(rw, path) ==
    IF rw.class = "RealRewriter" THEN real_restore(rw, path) ELSE noop_restore(rw, path)

\* Rewriter.on_source / Rewriter.on_destination
on_source(rw, path) == rewrite(rw, rw.source, path)
on_destination(rw, path) == rewrite(rw, rw.destination, path)

\* The tier roots of a mapping: two separate trees, as in the tests.
TierChoices ==
    { [source |-> <<"mnt", "cache">>, destination |-> <<"mnt", "user0">>],
      [source |-> <<"mnt", "cache", "data">>, destination |-> <<"mnt", "user0", "data">>] }
\* The "from" of a client's rewrite: the path the client sees the data at.
FromChoices == { <<"data">>, <<"mnt", "cache">> }
\* The "to" of a client's rewrite: the source root or a directory of it.
ToChoices(source) == { source, Append(source, "data") }

notRewriterVars == <<mainVars, unitsButRewriter>>

\* MovingMapping.__parse_rewriter built the object; a path is at hand.
InitRewriter ==
    /\ MainIdle /\ IdleButRewriter
    /\ \E t \in TierChoices :
         \/ \E from \in FromChoices, to \in ToChoices(t.source) :
               rewriter = RealRewriter(t.source, t.destination, from, to)
         \/ rewriter = NoopRewriter(t.source, t.destination)
    /\ rw_path \in AbsPaths
    /\ rw_applied = <<>>
    /\ rw_result = rw_path

call_on_source ==
    /\ rw_applied = <<>>
    /\ rw_result' = on_source(rewriter, rw_result)
    /\ rw_applied' = Append(rw_applied, "on_source")
    /\ UNCHANGED <<rewriter, rw_path, notRewriterVars>>

call_on_destination ==
    /\ rw_applied = <<>>
    /\ rw_result' = on_destination(rewriter, rw_result)
    /\ rw_applied' = Append(rw_applied, "on_destination")
    /\ UNCHANGED <<rewriter, rw_path, notRewriterVars>>

\* restore of the path at hand or of what on_source / on_destination returned.
call_restore ==
    /\ "restore" \notin Range(rw_applied)
    /\ rw_result' = restore(rewriter, rw_result)
    /\ rw_applied' = Append(rw_applied, "restore")
    /\ UNCHANGED <<rewriter, rw_path, notRewriterVars>>

NextRewriter ==
    \/ call_on_source
    \/ call_on_destination
    \/ call_restore

SpecRewriter == InitRewriter /\ [][NextRewriter]_vars

\* ------------------------------- MovingMapping.is_active: the probe tasks

notProbeVars == <<mainVars, unitsButProbes>>

Unfinished == { m \in DOMAIN probes : probes[m] \in {"running", "cancelling"} }

\* config.py line 192: one task per media player is created.
InitActive ==
    /\ MainIdle /\ IdleButProbes
    /\ probe_answer \in [Players -> ProbeResults]
    /\ probes = [m \in Players |-> "running"]
    /\ completed = <<>>
    /\ awaited = 0
    /\ active_pc = "as_completed"
    /\ active_result = FALSE

\* The task of a media player finishes: it returns whether the file is
\* playing, or it raises because the player cannot be reached.
probe_finish ==
    /\ \E m \in Players :
         /\ probes[m] = "running"
         /\ probes' = [probes EXCEPT ![m] = probe_answer[m]]
         /\ completed' = Append(completed, m)
    /\ UNCHANGED <<probe_answer, awaited, active_pc, active_result, notProbeVars>>

\* A task that t.cancel() was called on ends with CancelledError.
probe_cancelled ==
    /\ \E m \in Players :
         /\ probes[m] = "cancelling"
         /\ probes' = [probes EXCEPT ![m] = "cancelled"]
    /\ UNCHANGED <<probe_answer, completed, awaited, active_pc, active_result, notProbeVars>>

\* config.py lines 197-199: t.cancel() for every task that is not done.
cancel_rest(ps) == [m \in DOMAIN ps |-> IF ps[m] = "running" THEN "cancelling" ELSE ps[m]]

\* config.py line 203: gather(*tasks, return_exceptions=True) returns when
\* every task is done.
gather_ready(ps) == \A m \in DOMAIN ps : ps[m] \notin {"running", "cancelling"}

\* config.py lines 195-201: `await coro` of the next task as_completed
\* yields.  A result of True cancels the others and leaves the loop; an
\* exception of the task leaves is_active at once; after the last task the
\* loop ends.
await_next ==
    /\ active_pc = "as_completed"
    /\ awaited < Len(completed)
    /\ awaited' = awaited + 1
    /\ LET m == completed[awaited + 1] IN
       CASE probes[m] = "playing" ->
              /\ probes' = cancel_rest(probes)
              /\ active_result' = TRUE
              /\ active_pc' = "gather"
         [] probes[m] = "error" ->
              /\ active_pc' = "raised"
              /\ UNCHANGED <<probes, active_result>>
         [] OTHER ->
              /\ active_pc' = IF awaited + 1 = Cardinality(Players) THEN "gather"
                              ELSE "as_completed"
              /\ UNCHANGED <<probes, active_result>>
    /\ UNCHANGED <<probe_answer, completed, notProbeVars>>

\* config.py lines 203-205: the gather returns and is_active returns result.
gather_return ==
    /\ active_pc = "gather"
    /\ gather_ready(probes)
    /\ active_pc' = "returned"
    /\ UNCHANGED <<probe_answer, probes, completed, awaited, active_result, notProbeVars>>

NextActive ==
    \/ probe_finish
    \/ probe_cancelled
    \/ await_next
    \/ gather_return

SpecActive == InitActive /\ [][NextActive]_vars

\* ------------------------------- MovingMapping.needs_moving: the arithmetic

\* Bits of the significand of a float.  CPython's float has 53; the arithmetic
\* below is the same round-to-nearest-even arithmetic on a shorter significand.
MantissaBits == 8
\* The largest capacity of a source tier, in bytes.
MaxTotal == 200

RECURSIVE Pow2(_)
Pow2(k) == IF k = 0 THEN 1 ELSE 2 * Pow2(k - 1)

\* n/d (n > 0) brought to u/v = n/d * down/up with
\* 2^(MantissaBits-1) <= u/v < 2^MantissaBits.
RECURSIVE Scale(_, _, _, _)
Scale(n, d, up, down) ==
    IF n >= Pow2(MantissaBits) * d THEN Scale(n, 2 * d, 2 * up, down)
    ELSE IF n < Pow2(MantissaBits - 1) * d THEN Scale(2 * n, d, up, 2 * down)
    ELSE [n |-> n, d |-> d, up |-> up, down |-> down]

\* The float nearest to the rational n/d, ties to the even significand; a
\* float is held as the fraction num/den it is equal to.
to_float(n, d) ==
    IF n = 0 THEN [num |-> 0, den |-> 1]
    ELSE LET s == Scale(n, d, 1, 1)
             q == s.n \div s.d
             r == s.n % s.d
             m == IF 2 * r > s.d \/ (2 * r = s.d /\ q % 2 = 1) THEN q + 1 ELSE q
         IN [num |-> m * s.up, den |-> s.down]

\* float(n) of an int, as the operators / and * convert their int operands.
from_int(n) == to_float(n, 1)
\* a / b of two ints: the quotient, correctly rounded.
truediv(a, b) == to_float(a, b)
\* x * y of two floats.
mul(x, y) == to_float(x.num * y.num, x.den * y.den)
\* int(x) of a float that is not negative: the fraction is dropped.
int(x) == x.num \div x.den

\* threshold_bytes of needs_moving (config.py:62).
threshold_bytes_of(t, u, pct) == u - int(mul(from_int(t), truediv(pct, 100)))

Totals == {MaxTotal \div 2, MaxTotal}

\* A mapping with its clients, a source tier of some capacity and usage, and
\* a demote threshold between 0 and 100 percent.
InitBudget ==
    /\ MainIdle /\ IdleButBudget
    /\ usage \in { g \in [total : Totals, used : 0..MaxTotal] : g.used <= g.total }
    /\ threshold_pct \in 0..100
    /\ budget = -1
    /\ scanned = {}

\* config.needs_moving: the call, its scans included.
needs_moving_call ==
    /\ budget = -1
    /\ LET threshold_bytes == threshold_bytes_of(usage.total, usage.used, threshold_pct) IN
       IF threshold_bytes > 0
       THEN /\ scanned' = Clients
            /\ budget' = threshold_bytes
       ELSE /\ scanned' = {}
            /\ budget' = 0
    /\ UNCHANGED <<mainVars, unitsButBudget, usage, threshold_pct>>

NextBudget == needs_moving_call

SpecBudget == InitBudget /\ [][NextBudget]_vars

\* ------------------- eligible_for_source: the promotion candidates in order

\* Number of distinct last-played times.
MaxKeys == 2
\* Number of episodes or movies a media player lists.
MaxItems == 2
\* max_count of continue_watching.
max_count == 25

\* Queue keys: minus the last-played timestamp.
Keys == { -t : t \in 1..MaxKeys }

\* The part files of one movie or episode, in the order the set iterates.
Items == { <<p>> : p \in Paths } \cup { <<"a/x", "a/y">>, <<"a/y", "a/x">> }

\* What a media player lists, item by item: the keys ascend (the list comes
\* out of a priority queue) and no path is listed twice (the set processed).
FlatFeeds ==
    UNION { { f \in [1..n -> [key : Keys, item : Items]] :
                /\ \A i, j \in 1..n : i < j => f[i].key <= f[j].key
                /\ \A i, j \in 1..n : i < j => Range(f[i].item) \cap Range(f[j].item) = {} }
            : n \in 0..MaxItems }

\* The items of one key form one bucket (a series from its next-up episode
\* on, or a movie).
RECURSIVE Grouped(_)
Grouped(f) ==
    IF f = <<>> THEN <<>>
    ELSE LET h == Head(f)
             rest == Grouped(Tail(f))
         IN IF rest # <<>> /\ rest[1].key = h.key
            THEN <<[key |-> h.key, bucket |-> <<h.item>> \o rest[1].bucket]>> \o Tail(rest)
            ELSE <<[key |-> h.key, bucket |-> <<h.item>>]>> \o rest

RECURSIVE Concat(_)
Concat(ss) == IF ss = <<>> THEN <<>> ELSE Head(ss) \o Concat(Tail(ss))

\* The entries continue_watching puts for one item: (key, index, path) for
\* each file that is not on the source and is on the destination.  Paths are
\* relative to the roots of the tiers.
item_puts(key, item) ==
    SelectSeq([i \in 1..Len(item) |-> <<key, i - 1, item[i]>>],
              LAMBDA e : src[e[3]] = 0 /\ dst[e[3]] # 0)

bucket_puts(key, bucket) ==
    Concat([k \in 1..Min(Len(bucket), max_count) |-> item_puts(key, bucket[k])])

\* Every entry continue_watching of a player puts, in order.
continue_watching_puts(m) ==
    Concat([b \in 1..Len(watching[m]) |-> bucket_puts(watching[m][b].key, watching[m][b].bucket)])

\* An ordering of the queue entries by path alone.
cw_entry_lt_by_path(a, b) == PathRank(a[3]) < PathRank(b[3])

\* Python's comparison of the tuples (key, index, path).
cw_entry_lt(a, b) ==
    \/ a[1] < b[1]
    \/ a[1] = b[1] /\ a[2] < b[2]
    \/ a[1] = b[1] /\ a[2] = b[2] /\ PathRank(a[3]) < PathRank(b[3])

\* pq.get(): a smallest entry.
cw_get(q) == CHOOSE x \in q : \A y \in q : ~cw_entry_lt(y.e, x.e)

\* metadata of a candidate; the time is kept as the timestamp.
cw_metadata(last_watched) == [last_watched_at |-> - last_watched]

FullDst == [p \in Paths |-> IF p = "a/x" THEN 11 ELSE 12]

\* A mapping whose media players list what is being watched; the destination
\* holds the files, or the source still holds one, or one is on no tier.
InitPromote ==
    /\ RunIdle /\ IdleButPromote
    /\ \E tiers \in { <<NoFiles, FullDst>>, <<PartialLayout, FullDst>>,
                       <<NoFiles, DemotedLayout>> } :
          src = tiers[1] /\ dst = tiers[2]
    /\ src0 = NoFiles /\ walk_order = <<>>
    /\ watching \in [Players -> { Grouped(f) : f \in FlatFeeds }]
    /\ cw_done = [m \in Players |-> 0]
    /\ cw_queue = {} /\ cw_seen = {} /\ candidates = <<>>

\* continue_watching(pq) of one player: its next pq.put.
continue_watching_put(m) ==
    /\ cw_done[m] < Len(continue_watching_puts(m))
    /\ cw_queue' = cw_queue \cup {[e |-> continue_watching_puts(m)[cw_done[m] + 1], by |-> m]}
    /\ cw_done' = [cw_done EXCEPT ![m] = @ + 1]
    /\ UNCHANGED <<mainVars, unitsButPromote, watching, cw_seen, candidates>>

\* process() of eligible_for_source, after `await tasks`: one turn of the loop.
process_get ==
    /\ \A m \in Players : cw_done[m] = Len(continue_watching_puts(m))
    /\ cw_queue # {}
    /\ LET x == cw_get(cw_queue)
           last_watched == x.e[1]
           path == x.e[3]
       IN /\ cw_queue' = cw_queue \ {x}
          /\ IF path \in cw_seen
             THEN UNCHANGED <<cw_seen, candidates>>
             ELSE /\ candidates' = Append(candidates, <<path, cw_metadata(last_watched)>>)
                  /\ cw_seen' = cw_seen \cup {path}
    /\ UNCHANGED <<mainVars, unitsButPromote, watching, cw_done>>

NextPromote ==
    \/ \E m \in Players : continue_watching_put(m)
    \/ process_get

SpecPromote == InitPromote /\ [][NextPromote]_vars

\* --------------------------------- __main__: the config and the lock file

\* Number of processes started on the same lock file.
NumProcs == 3

Procs == 1..NumProcs
\* One lock file per process at most: open(..., 'w') creates it when the path
\* does not exist.
LockInodes == 1..NumProcs

\* The mapping of the config file: whether it has the key "source", and the
\* values of "threshold" and "cache_threshold".
RawChoices ==
    [ has_source : BOOLEAN,
      thresholds : { [threshold |-> 50, cache_threshold |-> 40],
                     [threshold |-> 50, cache_threshold |-> 80],
                     [threshold |-> 150, cache_threshold |-> 40] } ]

\* The disk of the source tier as every process finds it.
StartupDisk == [total |-> Disk.total, used |-> 12]

\* The processes are started; the lock file does not exist.
InitStartup ==
    /\ RunIdle /\ IdleButStartup
    /\ src = NoFiles /\ dst = NoFiles /\ src0 = NoFiles /\ walk_order = <<>>
    /\ raw \in RawChoices
    /\ proc_pc = [p \in Procs |-> "start"]
    /\ lock_fd = [p \in Procs |-> 0]
    /\ lock_path = 0
    /\ flock_owner = [i \in LockInodes |-> 0]
    /\ inode_count = 0
    /\ seeder_called = {}

\* Config(now, args.config): MovingMapping.__init__ reads raw["source"]
\* (KeyError when missing) and stores the thresholds as they are.
load_config(p) ==
    /\ proc_pc[p] = "start"
    /\ proc_pc' = [proc_pc EXCEPT ![p] = IF raw.has_source THEN "loaded" ELSE "fatal"]
    /\ UNCHANGED <<mainVars, unitsButStartup, raw, lock_fd, lock_path, flock_owner,
                   inode_count, seeder_called>>

\* lock_file = open(args.lock_file, 'w')
open_lock(p) ==
    /\ proc_pc[p] = "loaded"
    /\ IF lock_path = 0
       THEN /\ lock_path' = inode_count + 1
            /\ inode_count' = inode_count + 1
       ELSE UNCHANGED <<lock_path, inode_count>>
    /\ lock_fd' = [lock_fd EXCEPT ![p] = lock_path']
    /\ proc_pc' = [proc_pc EXCEPT ![p] = "opened"]
    /\ UNCHANGED <<mainVars, unitsButStartup, raw, flock_owner, seeder_called>>

\* fcntl.flock(lock_file, LOCK_EX | LOCK_NB); BlockingIOError ends the
\* process, which closes its file.
flock(p) ==
    /\ proc_pc[p] = "opened"
    /\ IF flock_owner[lock_fd[p]] = 0
       THEN /\ flock_owner' = [flock_owner EXCEPT ![lock_fd[p]] = p]
            /\ proc_pc' = [proc_pc EXCEPT ![p] = "main"]
            /\ UNCHANGED lock_fd
       ELSE /\ proc_pc' = [proc_pc EXCEPT ![p] = "exited"]
            /\ lock_fd' = [lock_fd EXCEPT ![p] = 0]
            /\ UNCHANGED flock_owner
    /\ UNCHANGED <<mainVars, unitsButStartup, raw, lock_path, inode_count, seeder_called>>

\* asyncio.run(main(config)): needs_moving of the mapping scans the source on
\* the clients when the usage is over the threshold.
run_main(p) ==
    /\ proc_pc[p] = "main"
    /\ seeder_called' =
          IF threshold_bytes_of(StartupDisk.total, StartupDisk.used, raw.thresholds.threshold) > 0
          THEN seeder_called \cup {p} ELSE seeder_called
    /\ proc_pc' = [proc_pc EXCEPT ![p] = "finally"]
    /\ UNCHANGED <<mainVars, unitsButStartup, raw, lock_fd, lock_path, flock_owner, inode_count>>

\* finally: lock_file.close(), which drops the flock.
close_lock(p) ==
    /\ proc_pc[p] = "finally"
    /\ flock_owner' = [flock_owner EXCEPT ![lock_fd[p]] = 0]
    /\ lock_fd' = [lock_fd EXCEPT ![p] = 0]
    /\ proc_pc' = [proc_pc EXCEPT ![p] = "closed"]
    /\ UNCHANGED <<mainVars, unitsButStartup, raw, lock_path, inode_count, seeder_called>>

\* finally: os.remove(lock_file.name); FileNotFoundError when the path is gone.
remove_lock(p) ==
    /\ proc_pc[p] = "closed"
    /\ lock_path' = 0
    /\ proc_pc' = [proc_pc EXCEPT ![p] = "done"]
    /\ UNCHANGED <<mainVars, unitsButStartup, raw, lock_fd, flock_owner, inode_count,
                   seeder_called>>

NextStartup ==
    \E p \in Procs :
        \/ load_config(p)
        \/ open_lock(p)
        \/ flock(p)
        \/ run_main(p)
        \/ close_lock(p)
        \/ remove_lock(p)

SpecStartup == InitStartup /\ [][NextStartup]_vars

\* ------------------------------------------------------------ properties

\* The paths of the source that shared inode i when the mapping started.
Group(i) == { p \in Paths : src0[p] = i }

\* The inodes of the source that carried files when the mapping started.
Groups == { i \in SrcInodes : Group(i) # {} }

\* Every path of the group was handled and is gone from the source.
Removed(i) == \A p \in Group(i) : p \in processed /\ src[p] = 0

\* The demotion phase of the mapping ran and returned.
Demoted == needs > 0 /\ emptied >= 0

\* C1: after a demotion that is not a dry run and in which no operation
\* failed, the destination counterparts of every group that was handled and
\* removed from the source all exist and share one inode, whatever the
\* destination held before.
HardlinkPreservation ==
    ~dry_run /\ faults = 0 /\ Demoted =>
        \A i \in Groups :
            Removed(i) =>
                \A p, q \in Group(i) : dst[p] # 0 /\ dst[p] = dst[q]

\* C2: in a run that is not a dry run, the data of every group stays
\* reachable: a path of it is still on the source, or a counterpart of it on
\* the destination has the size of the group.
NoDataLoss ==
    ~dry_run =>
        \A i \in Groups :
            \E p \in Group(i) :
                \/ src[p] = i
                \/ dst[p] # 0 /\ isize[dst[p]] = isize0[i]

\* C3: a group whose leader the media players reported in use is left
\* alone: pause is called for none of its paths, none is copied, linked or
\* deleted, and its paths and their counterparts are as they were.  (A
\* torrent that also covers a file of another group is still paused when
\* that other group is moved.)
ActiveImmunity ==
    \A p \in Paths :
        src0[p] \in active_skipped =>
            /\ p \notin touched
            /\ p \notin processed
            /\ src[p] = src0[p]
            /\ dst[p] = dst0[p]

\* A group in use was skipped while another group was moved for real.
ActiveImmunityWitness ==
    /\ ~dry_run
    /\ pc = "move_to_source"
    /\ active_skipped # {}
    /\ \E i \in Range(moved) : i \notin active_skipped /\ Removed(i)

\* C4: when a mapping is left, by completion or by an exception, the paused
\* record of every client is empty.
ResumeOnExit ==
    pc \in {"left", "crashed"} => \A c \in Clients : paused_torrents[c] = <<>>

\* Every torrent the clients indexed under the inode of path p is in the
\* paused record, and paused at its client when the run is not a dry run.
CoveringPaused(p) ==
    \A c \in Clients :
        \A t \in Range(cache[c][get_stat(p).st_ino]) :
            /\ t \in Range(paused_torrents[c])
            /\ ~dry_run => tstate[t] = "paused"

\* C5: whenever the executor is about to copy or delete a leader, or to link
\* or delete a sibling, pause has completed for that path: the torrents that
\* reference its inode are recorded and paused.
PauseBeforeMutation ==
    /\ pc \in {"copy", "links", "link", "link_delete"} => CoveringPaused(src_file)
    /\ pc \in {"link", "link_delete"} => CoveringPaused(link_src_file)

\* A leader seeded by a torrent is about to be copied in a real run.
PauseBeforeMutationWitness ==
    /\ ~dry_run
    /\ pc = "copy"
    /\ \E c \in Clients : cache[c][get_stat(src_file).st_ino] # <<>>
    /\ CoveringPaused(src_file)

\* The size of the group moved last.
LastMoved == IF moved = <<>> THEN 0 ELSE isize0[moved[Len(moved)]]

\* C6 as stated: the total a demotion returns, with the sizes of the
\* destination files deleted at sibling locations in it, is at most the
\* budget plus the size of the group moved last.
BudgetRespected ==
    Demoted => emptied <= needs + LastMoved

\* C6 amended: the total less the sizes of the destination files deleted at
\* sibling locations is at most the budget plus the size of the group moved
\* last, at every point of the demotion.
BudgetRespectedGroups ==
    needs > 0 => total - orphan_credit <= needs + LastMoved

\* A demotion overshot its budget by its last group while it also deleted a
\* destination file at a sibling location.
BudgetRespectedWitness ==
    /\ Demoted
    /\ Len(moved) > 1
    /\ orphan_credit > 0
    /\ emptied - orphan_credit > needs

\* C7: in a run that is not a dry run, the total a demotion returns, less the
\* sizes of the destination files deleted at sibling locations, is the sum of
\* the sizes of the groups whose paths were all deleted from the source.
AccountingConservation ==
    ~dry_run /\ Demoted =>
        emptied - orphan_credit
            = SumOver({ i \in Groups : \A p \in Group(i) : src[p] = 0 },
                      [i \in Inodes |-> isize0[i]])

\* C8: a group adds its size to the total once and takes it off the budget
\* once, however many paths share its inode: no inode is moved twice, and
\* both the total and the budget moved by the sizes of the moved inodes.
GroupCreditedOnce ==
    /\ \A j, k \in 1..Len(moved) : moved[j] = moved[k] => j = k
    /\ total - orphan_credit
         = SumOver(Range(moved), [i \in Inodes |-> isize0[i]])
    /\ pc \in {"move_files", "pause", "copy", "links", "link", "link_delete",
               "delete_empty_dirs"}
         => needs - remaining = SumOver(Range(moved), [i \in Inodes |-> isize0[i]])

\* A group of two paths was moved and both paths are gone.
GroupCreditedOnceWitness ==
    /\ ~dry_run
    /\ pc = "move_to_source"
    /\ \E i \in Range(moved) : Cardinality(Group(i)) = 2 /\ Removed(i)

\* C9: a dry run changes no file and no directory of either tier and sends
\* no pause and no resume to a seeding client.
DryRunNoMutation ==
    dry_run =>
        /\ src = src0 /\ dst = dst0 /\ isize = isize0
        /\ dst_dirs = dst_dirs0
        /\ src_dirs = { DirOf(p) : p \in { q \in Paths : src0[q] # 0 } }
        /\ \A t \in Torrents : tstate[t] = "seeding"
        /\ sent = {}

\* A dry run handled a group of two paths, recorded a pause for it and went
\* through the resume.
DryRunNoMutationWitness ==
    /\ dry_run
    /\ pc = "left"
    /\ \E i \in Range(moved) : Cardinality(Group(i)) = 2
    /\ touched # {}
    /\ \E c \in Clients : \E i \in Range(moved) : cache[c][i] # <<>>

\* C10: a real run in which nothing fails, on the tiers and with the answers
\* of a dry run, moves the groups the dry run reported, in the same order,
\* and returns the total the dry run returned.
DryRunAccountsLikeReal ==
    twin.pass = 2 /\ pc = "move_to_source" =>
        /\ moved = twin.moved
        /\ emptied = twin.emptied

\* Nothing of either tier changed and no seeding client was asked anything.
Untouched ==
    /\ src = src0 /\ dst = dst0 /\ isize = isize0
    /\ dst_dirs = dst_dirs0
    /\ src_dirs = { DirOf(p) : p \in { q \in Paths : src0[q] # 0 } }
    /\ touched = {} /\ sent = {} /\ failed = {}
    /\ \A t \in Torrents : tstate[t] = "seeding"
    /\ \A c \in Clients : paused_torrents[c] = <<>>

\* C11: when the usage of the source is not over the demote threshold and
\* the media players offer nothing to promote, the run changes no file and
\* no directory of either tier and pauses no torrent.
NoOpRun ==
    /\ used0 <= (Disk.total * Disk.threshold) \div 100
    /\ \A m \in Players : \A p \in cw_items[m] : ~(src0[p] = 0 /\ dst0[p] # 0)
    => Untouched

\* A real run over a source with files, below both thresholds and with
\* nothing to promote, went through both phases.
NoOpRunWitness ==
    /\ ~dry_run
    /\ pc = "left"
    /\ used0 < (Disk.total * Disk.cache_threshold) \div 100
    /\ \E p \in Paths : src0[p] # 0 /\ ~is_ignored(p)
    /\ eligible_for_source = {}
    /\ Untouched

Promoted == \A c \in Clients : "destination" \in seen[c]

\* C13: when a real run in which nothing fails had files to promote and
\* budget for them, the promote phase ends with a promoted file at its
\* location on the source.
PromotionDelivers ==
    ~dry_run /\ faults = 0 /\ Promoted =>
        \E p \in Paths : src0[p] = 0 /\ dst[p] # 0 /\ src[p] # 0

\* C14: a path that matches an ignore glob is never copied, linked or
\* deleted by the executor, as a leader or as a sibling of another leader.
IgnoredNeverMoved ==
    \A p \in Paths :
        is_ignored(p) /\ src0[p] # 0 =>
            /\ p \notin touched
            /\ p \notin processed
            /\ src[p] = src0[p]

\* C15: when the copy of a leader failed, whatever the failure, the group is
\* abandoned: the leader is not deleted and no sibling of it is linked or
\* deleted.
FailAtomicLeader ==
    \A l \in Paths :
        <<l, "copy">> \in failed =>
            /\ src[l] = src0[l]
            /\ \A p \in Group(src0[l]) \ {l} : src[p] = src0[p] /\ dst[p] = dst0[p]

\* C16: a copy or a link that fails does not end the phase: when a step
\* fails while the plan still holds a leader to handle and budget is left,
\* the executor is not left by an exception.
FailureDoesNotStopPhase ==
    [][/\ failed' # failed
       /\ remaining > 0
       /\ \E f \in Range(files) : f \notin processed' /\ ~is_ignored(f)
       => pc' # "except"]_vars

\* C17: an exception raised while a mapping is processed never ends the run
\* while later mappings remain.
MappingIsolation ==
    ~(pc = "crashed" /\ mi < NumMappings)

\* C18: a media player that fails does not stop the mapping: the two steps
\* that query the media players, the computation of the sort keys and the
\* is_active probe, whose only failure is a failing media player, are never
\* left by an exception.
MediaFailureTolerated ==
    [][(pc = "walk" \/ pc = "move_files") => pc' # "except"]_vars

\* C19: a torrent that cannot be paused or resumed does not abort anything:
\* the steps that pause for a path and the step that resumes, whose only
\* failure is a failing torrent, are never left by an exception, and after
\* the resume no torrent is left in the paused record.
TorrentFailureIsolated ==
    [][(pc = "pause" \/ pc = "links" \/ pc = "finally") =>
          /\ pc' # "except" /\ pc' # "crashed"
          /\ pc = "finally" => \A c \in Clients : paused_torrents'[c] = <<>>]_vars

\* The sequence xs holds no element twice.
NoDup(xs) == \A j, k \in 1..Len(xs) : xs[j] = xs[k] => j = k

\* The sequence xs is the beginning of the sequence ys.
Prefix(xs, ys) == Len(xs) <= Len(ys) /\ SubSeq(ys, 1, Len(xs)) = xs

\* C20: over the pause calls of a mapping a torrent is paused and recorded
\* at most once: the record is only appended to, holds no torrent twice,
\* and a torrent added to it in a real run was seeding.  The resume takes
\* the torrents off the end of the record, resumes every recorded torrent
\* and leaves the record empty.
PauseResumeBookkeeping ==
    [][\A c \in Clients :
          /\ NoDup(paused_torrents'[c])
          /\ (pc = "pause" \/ pc = "links") =>
                /\ Prefix(paused_torrents[c], paused_torrents'[c])
                /\ ~dry_run =>
                      \A t \in Range(paused_torrents'[c]) \ Range(paused_torrents[c]) :
                          tstate[t] = "seeding" /\ tstate'[t] = "paused"
          /\ pc = "finally" =>
                /\ Prefix(paused_torrents'[c], paused_torrents[c])
                /\ paused_torrents'[c] = <<>>
                /\ ~dry_run => \A t \in Range(paused_torrents[c]) : tstate'[t] = "seeding"]_vars

\* The same bookkeeping, for the resumes in which no torrent fails.
PauseResumeBookkeepingNoFailure ==
    [][\A c \in Clients :
          /\ NoDup(paused_torrents'[c])
          /\ (pc = "pause" \/ pc = "links") =>
                /\ Prefix(paused_torrents[c], paused_torrents'[c])
                /\ ~dry_run =>
                      \A t \in Range(paused_torrents'[c]) \ Range(paused_torrents[c]) :
                          tstate[t] = "seeding" /\ tstate'[t] = "paused"
          /\ pc = "finally" /\ pc' = "left" =>
                /\ paused_torrents'[c] = <<>>
                /\ ~dry_run => \A t \in Range(paused_torrents[c]) : tstate'[t] = "seeding"]_vars

\* C21: whatever the order in which the sort-key tasks complete, the paths
\* handed to the executor are the candidates, each once, in the strict total
\* order of (sort key, path): a path comes before another when its key tuple
\* is lower, or the keys are equal and its path string is lower.
PlanPrecedes(p, q) ==
    \/ TupleLess(sort_key[p], sort_key[q])
    \/ sort_key[p] = sort_key[q] /\ PathRank(p) < PathRank(q)
PlanDeterminism ==
    /\ \A i, j \in 1..Len(plan) : i < j => PlanPrecedes(plan[i], plan[j])
    /\ \A i, j \in 1..Len(pq) : ~entry_raises(pq[i], pq[j])
    /\ ((\A p \in DOMAIN tasks : tasks[p] = "done") /\ pq = <<>>)
          => Range(plan) = DOMAIN tasks
\* Three candidates, two of them with equal keys, whose queue was drained.
PlanDeterminismWitness ==
    /\ Len(plan) = 3 /\ pq = <<>>
    /\ sort_key["a/x"] = sort_key["b/x"]
    /\ TupleLess(sort_key["a/y"], sort_key["a/x"])
    /\ plan = <<"a/y", "a/x", "b/x">>

\* C22: however many scan(root) calls are made on one client, one after
\* the other or concurrently, the torrents are enumerated for a root at most
\* once, and no torrent is indexed twice under one inode.
ScanCoalescing ==
    /\ \A r \in DOMAIN enumerated : enumerated[r] <= 1
    /\ \A c \in Clients, i \in Inodes : NoDup(cache[c][i])

\* C28: no get_sort_key or pause call reads the index while an enumeration
\* is populating it, and a call made after a scan(root) call returned finds
\* every torrent that scan indexes under the inode of its path.
IndexReadWhole ==
    \A e \in read_log : ~e.torn /\ ~e.missing
\* A call that found torrents after the scan of the source returned.
IndexReadWholeWitness ==
    \E e \in read_log :
        /\ e.result # {}
        /\ \E k \in InScan({"done"}) : scan_calls[k].root = "source"

\* C29: when the enumeration of the source fails, the semaphore is released,
\* every later get_sort_key call returns the empty set and every later pause
\* call pauses nothing.
FailedScanNoTorrents ==
    /\ InScan({"submitted", "populating"}) = {} => qbit_sem = 1
    /\ \A e \in read_log :
          e.failed => e.result = {}
    /\ (\A r \in DOMAIN enumerated : enumerated[r] = 0)
          => \A c \in Clients : paused_torrents[c] = <<>>
\* After a failed scan of the source, a pause call returned.
FailedScanNoTorrentsWitness ==
    \E e \in read_log : e.failed /\ e.kind = "pause"

\* Paths at or below a root, and what follows the root in them.
IsUnder(path, root) == Len(root) <= Len(path) /\ SubSeq(path, 1, Len(root)) = root
After(path, root) == SubSeq(path, Len(root) + 1, Len(path))
IsReal == rewriter.class = "RealRewriter"
IsNoop == rewriter.class = "NoopRewriter"

\* C23: a RealRewriter whose `to` is the source root or a directory below it
\* maps a path at or below `from` to the source root (on_source) or the
\* destination root (on_destination), followed by what `to` has after the
\* source root, followed by what the path has after `from`.
RealTranslation ==
    (/\ IsReal
     /\ IsUnder(rewriter.to, rewriter.source)
     /\ IsUnder(rw_path, rewriter._from))
    => /\ rw_applied = <<"on_source">>
            => rw_result = rewriter.source \o After(rewriter.to, rewriter.source)
                             \o After(rw_path, rewriter._from)
       /\ rw_applied = <<"on_destination">>
            => rw_result = rewriter.destination \o After(rewriter.to, rewriter.source)
                             \o After(rw_path, rewriter._from)
\* "/data/m" was mapped to "/mnt/user0/data/m" with `to` below the source.
RealTranslationWitness ==
    /\ IsReal
    /\ rewriter.to = <<"mnt", "cache", "data">> /\ rewriter.source = <<"mnt", "cache">>
    /\ rw_path = <<"data", "m">>
    /\ rw_applied = <<"on_destination">>
    /\ rw_result = <<"mnt", "user0", "data", "m">>

\* C24: with a RealRewriter, restore gives back every path at or below
\* `from` from what on_source or on_destination made of it, and returns a
\* path that is under neither tier root as it is.
RealRoundTrip ==
    IsReal
    => /\ (/\ IsUnder(rw_path, rewriter._from)
            /\ rw_applied \in {<<"on_source", "restore">>, <<"on_destination", "restore">>})
            => rw_result = rw_path
       /\ (/\ rw_applied = <<"restore">>
            /\ ~IsUnder(rw_path, rewriter.source)
            /\ ~IsUnder(rw_path, rewriter.destination))
            => rw_result = rw_path
\* "/data/m/m" went to the destination tier and back.
RealRoundTripWitness ==
    /\ IsReal
    /\ rewriter._from = <<"data">>
    /\ rw_path = <<"data", "m", "m">>
    /\ rw_applied = <<"on_destination", "restore">>
    /\ rw_result = rw_path

\* C25: a RealRewriter returns a path that is not under `from` unchanged,
\* from on_source and from on_destination.
RealOutsideUnchanged ==
    (/\ IsReal
     /\ ~IsUnder(rw_path, rewriter._from)
     /\ rw_applied \in {<<"on_source">>, <<"on_destination">>})
    => rw_result = rw_path

\* C26: a NoopRewriter returns a path at or below the source root as it is
\* from on_source and moves it below the destination root in
\* on_destination; restore moves a path below either tier root to the same
\* place below the source root.
NoopReRooting ==
    IsNoop
    => /\ (IsUnder(rw_path, rewriter.source) /\ rw_applied = <<"on_source">>)
            => rw_result = rw_path
       /\ (IsUnder(rw_path, rewriter.source) /\ rw_applied = <<"on_destination">>)
            => rw_result = rewriter.destination \o After(rw_path, rewriter.source)
       /\ \A root \in {rewriter.source, rewriter.destination} :
            (/\ rw_applied = <<"restore">>
             /\ IsUnder(rw_path, root) /\ rw_path # root)
            => rw_result = rewriter.source \o After(rw_path, root)
\* "/mnt/user0/m" was restored to "/mnt/cache/m".
NoopReRootingWitness ==
    /\ IsNoop
    /\ rw_path = <<"mnt", "user0", "m">>
    /\ rw_applied = <<"restore">>
    /\ rw_result = <<"mnt", "cache", "m">>

\* C27: in a real run, the step that deletes the leader of an inode group
\* and takes the size of the group off the budget and adds it to the total
\* is taken only when every other path of the group is on the destination
\* tier and no longer on the source tier.
SiblingsDone ==
    \A q \in inodes_map[get_stat(src_file).st_ino] \ {src_file} :
        src[q] = 0 /\ dst[q] # 0
LeaderDeletedLast ==
    [][(pc = "links" /\ pc' = "move_files" /\ ~dry_run) => SiblingsDone]_vars
\* The same, for the steps taken while no operation has failed.
LeaderDeletedLastNoFailure ==
    [][(pc = "links" /\ pc' = "move_files" /\ ~dry_run /\ faults = 0) => SiblingsDone]_vars

\* C30: when a call of is_active has ended, no probe task it created is
\* still running, and it returned true exactly when the probe of some media
\* player reported the file as playing.
CallEnded == active_pc \in {"returned", "raised"}
ProbesJoined ==
    CallEnded
    => /\ Unfinished = {}
       /\ (active_pc = "returned" /\ active_result)
             <=> \E m \in DOMAIN probes : probes[m] = "playing"
\* The same, for the calls in which every media player can be reached.
ProbesJoinedNoFailure ==
    (CallEnded /\ \A m \in DOMAIN probe_answer : probe_answer[m] # "error")
    => /\ Unfinished = {}
       /\ (active_pc = "returned" /\ active_result)
             <=> \E m \in DOMAIN probes : probes[m] = "playing"

\* C31: in the demotion plan no leader that is a continue-watching candidate
\* of some media player comes before a leader that is a candidate of none,
\* ignored leaders aside.
IsContinueWatching(p) ==
    \E m \in Players : \E q \in cw_items[m] : src0[q] # 0 /\ src0[q] = src0[p]
ContinueWatchingLast ==
    \A i, j \in 1..Len(files) :
        (/\ i < j
         /\ ~is_ignored(files[i]) /\ ~is_ignored(files[j]))
        => ~(IsContinueWatching(files[i]) /\ ~IsContinueWatching(files[j]))
\* A plan of two leaders whose second, larger one is a continue-watching
\* candidate: by its size alone it would come first.
ContinueWatchingLastWitness ==
    /\ Len(files) = 2
    /\ ~is_ignored(files[1]) /\ ~is_ignored(files[2])
    /\ IsContinueWatching(files[2]) /\ ~IsContinueWatching(files[1])
    /\ get_stat(files[2]).st_size > get_stat(files[1]).st_size

\* The torrents the seeding clients hold for the inode of a path, and their
\* completion ages.
CoveringTorrents(p) == UNION { Range(cache[c][get_stat(p).st_ino]) : c \in Clients }
CompletionAges(p) == { Clock.now - TorrentInfo(t).completion_on : t \in CoveringTorrents(p) }
Planned == { p \in Range(files) : ~is_ignored(p) }

\* C32: the has_torrent dimension (the third) of the sort key of a planned
\* leader is 0 exactly when some torrent of a seeding client covers its
\* inode, and 1 otherwise.
HasTorrentDimension ==
    \A p \in Planned :
        /\ get_sort_key(p)[3] \in {0, 1}
        /\ get_sort_key(p)[3] = 0 <=> CoveringTorrents(p) # {}

\* C33: the completion-age dimension (the fifth) of the sort key of a
\* planned leader that torrents cover is minus the smallest completion age
\* of these torrents.
CompletionAgeDimension ==
    \A p \in Planned :
        CoveringTorrents(p) # {} => get_sort_key(p)[5] = - SetMin(CompletionAges(p))


\* C34: needs_moving returns used minus floor(total * threshold / 100) when
\* that value is strictly positive, and in exactly that case it has scanned
\* the source on every client; otherwise it returns 0 and scans nothing.
DemoteBudgetExact ==
    budget # -1 =>
        LET exact == usage.used - (usage.total * threshold_pct) \div 100 IN
        IF exact > 0
        THEN budget = exact /\ scanned = Clients
        ELSE budget = 0 /\ scanned = {}


\* Age of the inode group of a source path when the run started.
AgeOf(p) == Clock.now - ctime[src0[p]]

\* C35: every source path the demotion phase paused, copied, linked or
\* deleted, and every path gone from the source, belongs to an inode group
\* whose age lies within [min_age, max_age].
AgeWindow ==
    \A p \in Paths :
        (src0[p] # 0 /\ (p \in touched \/ src[p] = 0)) =>
            (Clock.min_age <= AgeOf(p) /\ AgeOf(p) <= Clock.max_age)

\* A group older than max_age stayed whole on the source while a group within
\* the window was demoted.
AgeWindowWitness ==
    \E p, q \in Paths :
        /\ src0[p] # 0 /\ src[p] = 0 /\ p \in touched
        /\ src0[q] # 0 /\ AgeOf(q) > Clock.max_age /\ src[q] = src0[q]


\* Position of a path in the candidate list; 0 when it is not a candidate.
CandidateIndex(p) ==
    IF \E i \in 1..Len(candidates) : candidates[i][1] = p
    THEN CHOOSE i \in 1..Len(candidates) : candidates[i][1] = p
    ELSE 0

\* C36: the candidate list holds each destination path at most once, and its
\* last-played times never increase along the list.
CandidatesOnceByRecency ==
    \A i, j \in 1..Len(candidates) :
        i < j =>
            /\ candidates[i][1] # candidates[j][1]
            /\ candidates[i][2].last_watched_at >= candidates[j][2].last_watched_at

\* Both players enqueued one path; the queue was drained into a list of
\* candidates played at different times.
CandidatesOnceByRecencyWitness ==
    /\ cw_queue = {}
    /\ \A m \in Players : cw_done[m] = Len(continue_watching_puts(m))
    /\ \E p \in Paths : \A m \in Players :
          \E k \in 1..Len(continue_watching_puts(m)) : continue_watching_puts(m)[k][3] = p
    /\ \E i, j \in 1..Len(candidates) :
          candidates[i][2].last_watched_at > candidates[j][2].last_watched_at

\* C37: two candidates with the same last-played time that are files of two
\* episodes of one bucket of a player come in the order of the episodes.
EpisodeOrder ==
    \A m \in Players : \A b \in 1..Len(watching[m]) :
        LET bucket == watching[m][b].bucket IN
        \A k, l \in 1..Len(bucket) : \A p \in Range(bucket[k]) : \A q \in Range(bucket[l]) :
            ( /\ k < l
              /\ CandidateIndex(p) # 0 /\ CandidateIndex(q) # 0
              /\ candidates[CandidateIndex(p)][2] = candidates[CandidateIndex(q)][2] )
            => CandidateIndex(p) < CandidateIndex(q)


\* 0 <= promote threshold <= demote threshold <= 100.
ThresholdsValid ==
    /\ 0 <= raw.thresholds.cache_threshold
    /\ raw.thresholds.cache_threshold <= raw.thresholds.threshold
    /\ raw.thresholds.threshold <= 100

\* C38: with thresholds that violate 0 <= promote <= demote <= 100 no process
\* gets past the loading of the config: no lock file is created, main() is not
\* entered and no seeding client is called.
ThresholdsRejected ==
    ~ThresholdsValid =>
        /\ \A p \in Procs : proc_pc[p] \in {"start", "fatal"}
        /\ lock_path = 0 /\ inode_count = 0
        /\ seeder_called = {}

\* C39: at most one process at a time is executing main, and a process that
\* found the lock held holds no file and no lock.
SingleInstance ==
    /\ \A p, q \in Procs : (proc_pc[p] = "main" /\ proc_pc[q] = "main") => p = q
    /\ \A p \in Procs : proc_pc[p] = "exited" =>
          (lock_fd[p] = 0 /\ \A i \in LockInodes : flock_owner[i] # p)


====
